---- MODULE Spec2Model ----
(***************************************************************************)
(* Model of the llm_ensemble orchestration engine (src/llm_ensemble.py):   *)
(* validate_and_setup, the concurrent fan-out of execute_parallel over the *)
(* two provider runners, and the single merge invocation.                  *)
(*                                                                         *)
(* Text is modelled as a sequence of character codes (Python code points), *)
(* so that string comparison, sanitising and file-name derivation are      *)
(* computed the way the code computes them.                                *)
(***************************************************************************)
EXTENDS Integers, Sequences, FiniteSets, TLC

(***************************************************************************)
(* Bounds of the model.                                                    *)
(***************************************************************************)
\* largest iteration count (-n) a run is given
MaxIterations == 2
\* largest number of fan-out tasks (entries of --models times iterations)
MaxTasks == 2
\* largest number of fan-out tasks of one run whose invoker call fails
\* (an artifact that cannot be opened, a nonzero exit, a timeout, a
\* malformed envelope)
MaxFaults == 1

(***************************************************************************)
(* Character codes and string literals of the source.                      *)
(***************************************************************************)
\* ","
COMMA == 44
\* ":"
COLON == 58
\* " "
SPACE == 32
\* "_"
UNDERSCORE == 95
\* "."
DOT == 46
\* "-"
DASH == 45

\* "gemini"
GEMINI == <<103, 101, 109, 105, 110, 105>>
\* "codex"
CODEX == <<99, 111, 100, 101, 120>>
\* "__"
LABEL_SEP == <<95, 95>>
\* "_run_"
RUN_INFIX == <<95, 114, 117, 110, 95>>
\* ".txt"
TXT == <<46, 116, 120, 116>>
\* ".log"
LOG == <<46, 108, 111, 103>>
\* ".json"
JSON == <<46, 106, 115, 111, 110>>
\* "gemini-3-pro-preview"
FALLBACK_GEMINI_MODEL == <<103, 101, 109, 105, 110, 105, 45, 51, 45, 112, 114, 111, 45, 112, 114, 101, 118, 105, 101, 119>>
\* "gpt-5.2-codex"
FALLBACK_CODEX_MODEL == <<103, 112, 116, 45, 53, 46, 50, 45, 99, 111, 100, 101, 120>>
\* seconds; 0 means no timeout
DEFAULT_TIMEOUT == 300

(***************************************************************************)
(* Python string operations used by the code.                              *)
(***************************************************************************)
\* characters str.strip() removes: tab, LF, VT, FF, CR, FS..US, space
Whitespace == {9, 10, 11, 12, 13, 28, 29, 30, 31, 32}

\* str.lower() on one character (ASCII range of the model)
LowerChar(c) == IF c >= 65 /\ c <= 90 THEN c + 32 ELSE c

\* str.lower()
Lower(s) == [k \in 1..Len(s) |-> LowerChar(s[k])]

\* str.replace(ch, "") for a single character ch
RECURSIVE RemoveChar(_, _)
RemoveChar(s, ch) ==
    IF s = <<>> THEN <<>>
    ELSE IF Head(s) = ch THEN RemoveChar(Tail(s), ch)
    ELSE <<Head(s)>> \o RemoveChar(Tail(s), ch)

\* str.strip()
RECURSIVE LStrip(_)
LStrip(s) ==
    IF s # <<>> /\ Head(s) \in Whitespace THEN LStrip(Tail(s)) ELSE s

RECURSIVE RStrip(_)
RStrip(s) ==
    IF s # <<>> /\ s[Len(s)] \in Whitespace
    THEN RStrip(SubSeq(s, 1, Len(s) - 1)) ELSE s

Strip(s) == RStrip(LStrip(s))

\* position of the first occurrence of ch in s, 0 when there is none
RECURSIVE IndexFrom(_, _, _)
IndexFrom(s, ch, k) ==
    IF k > Len(s) THEN 0
    ELSE IF s[k] = ch THEN k
    ELSE IndexFrom(s, ch, k + 1)

IndexOf(s, ch) == IndexFrom(s, ch, 1)

\* str.split(ch): always at least one field
RECURSIVE Split(_, _)
Split(s, ch) ==
    LET k == IndexOf(s, ch)
    IN  IF k = 0 THEN <<s>>
        ELSE <<SubSeq(s, 1, k - 1)>> \o Split(SubSeq(s, k + 1, Len(s)), ch)

\* str.split(ch, 1): at most two fields
Split1(s, ch) ==
    LET k == IndexOf(s, ch)
    IN  IF k = 0 THEN <<s>>
        ELSE <<SubSeq(s, 1, k - 1), SubSeq(s, k + 1, Len(s))>>

\* str(i) for i >= 0
RECURSIVE Str(_)
Str(i) ==
    IF i < 10 THEN <<48 + i>>
    ELSE Str(i \div 10) \o <<48 + (i % 10)>>

\* Python's < on str: lexicographic by code point, compared from position k
RECURSIVE StrLessFrom(_, _, _)
StrLessFrom(a, b, k) ==
    IF k > Len(b) THEN FALSE
    ELSE IF k > Len(a) THEN TRUE
    ELSE IF a[k] # b[k] THEN a[k] < b[k]
    ELSE StrLessFrom(a, b, k + 1)

StrLess(a, b) == StrLessFrom(a, b, 1)

\* the characters re.sub(r'[^a-zA-Z0-9._-]', ...) leaves alone
IsLabelChar(c) ==
    \/ (c >= 97 /\ c <= 122)
    \/ (c >= 65 /\ c <= 90)
    \/ (c >= 48 /\ c <= 57)
    \/ c \in {DOT, UNDERSCORE, DASH}

\* sanitize_label as it would be if "." and "-" were replaced as well
sanitize_label_NoPunct(text) ==
    [k \in 1..Len(text) |->
        IF IsLabelChar(text[k]) /\ text[k] \notin {DOT, DASH}
        THEN text[k] ELSE UNDERSCORE]

sanitize_label(text) ==
    [k \in 1..Len(text) |-> IF IsLabelChar(text[k]) THEN text[k] ELSE UNDERSCORE]

\* position of the last occurrence of ch in s, 0 when there is none
RECURSIVE LastIndexOf(_, _)
LastIndexOf(s, ch) ==
    IF s = <<>> THEN 0
    ELSE IF s[Len(s)] = ch THEN Len(s)
    ELSE LastIndexOf(SubSeq(s, 1, Len(s) - 1), ch)

\* pathlib's PurePath.with_suffix on a file name: the part from the last
\* dot on is replaced, unless that dot is the first or the last character
with_suffix(name, suffix) ==
    LET k == LastIndexOf(name, DOT)
    IN  IF k > 1 /\ k < Len(name) THEN SubSeq(name, 1, k - 1) \o suffix
        ELSE name \o suffix

(***************************************************************************)
(* Run configurations (the Config dataclass, the fields the engine reads). *)
(***************************************************************************)
\* "gemini"
CSV_GEMINI == <<103, 101, 109, 105, 110, 105>>
\* "gemini,codex"
CSV_GEMINI_CODEX == <<103, 101, 109, 105, 110, 105, 44, 99, 111, 100, 101, 120>>
\* "codex,codex"
CSV_CODEX_TWICE == <<99, 111, 100, 101, 120, 44, 99, 111, 100, 101, 120>>
\* "gemini:a@b,gemini:a#b"
CSV_SAME_LABEL == <<103, 101, 109, 105, 110, 105, 58, 97, 64, 98, 44, 103, 101, 109, 105, 110, 105, 58, 97, 35, 98>>
\* "claude"
CSV_UNKNOWN == <<99, 108, 97, 117, 100, 101>>
\* " Codex:M "
CSV_CODEX_M == <<32, 67, 111, 100, 101, 120, 58, 77, 32>>
\* "gemini:x"
CSV_GEMINI_X == <<103, 101, 109, 105, 110, 105, 58, 120>>
\* ", ,"
CSV_BLANK == <<44, 32, 44>>

Providers == {"gemini", "codex"}

\* --merge-codex-model "Gemini-2"
MERGE_GEMINI_2 == <<71, 101, 109, 105, 110, 105, 45, 50>>
\* --merge-codex-model "o3"
MERGE_O3 == <<111, 51>>

\* `sub in s` for str: sub occurs in s as a contiguous run
Contains(s, sub) ==
    \E k \in 0..(Len(s) - Len(sub)) : SubSeq(s, k + 1, k + Len(sub)) = sub

\* parse_args: merge_provider is "gemini" exactly when a merge model is
\* given and its lower-cased name contains "gemini" (<<>> is no merge model)
MergeProviderOf(merge_codex_model) ==
    IF merge_codex_model # <<>> /\ Contains(Lower(merge_codex_model), GEMINI)
    THEN "gemini" ELSE "codex"

BaseConfig(csv, timeout, merge_codex_model, codex_reasoning, merge_reasoning) ==
    [models_csv        |-> csv,
     iterations        |-> 1,
     timeout           |-> timeout,
     merge_codex_model |-> merge_codex_model,
     merge_provider    |-> MergeProviderOf(merge_codex_model),
     codex_reasoning   |-> codex_reasoning,
     merge_reasoning   |-> merge_reasoning,
     gemini_model      |-> FALLBACK_GEMINI_MODEL,
     codex_model       |-> FALLBACK_CODEX_MODEL]

\* merge_reasoning "" is no --merge-reasoning
BaseConfigs ==
    { BaseConfig(CSV_GEMINI, DEFAULT_TIMEOUT, <<>>, "high", ""),
      BaseConfig(CSV_GEMINI_CODEX, DEFAULT_TIMEOUT, MERGE_GEMINI_2, "high", "xhigh"),
      BaseConfig(CSV_CODEX_TWICE, 0, MERGE_GEMINI_2, "low", ""),
      BaseConfig(CSV_SAME_LABEL, DEFAULT_TIMEOUT, MERGE_O3, "high", "low"),
      BaseConfig(CSV_UNKNOWN, DEFAULT_TIMEOUT, <<>>, "high", ""),
      BaseConfig(CSV_CODEX_M, 0, <<>>, "medium", ""),
      BaseConfig(CSV_GEMINI_X, 0, <<>>, "high", "minimal"),
      BaseConfig(CSV_BLANK, DEFAULT_TIMEOUT, <<>>, "high", "") }

\* number of entries of --models
NumEntries(csv) == Len(Split(csv, COMMA))

\* the configurations explored: parse_args admits iterations >= 1 only
Configs ==
    { cn \in { [c EXCEPT !.iterations = n] :
                 c \in BaseConfigs, n \in 1..MaxIterations } :
        NumEntries(cn.models_csv) * cn.iterations <= MaxTasks }

(***************************************************************************)
(* validate_and_setup, step 3: parsing --models into runners_list.         *)
(***************************************************************************)
\* one entry of raw_list after raw.lower().replace(" ", "")
NormalizeEntry(x) == RemoveChar(Lower(Strip(x)), SPACE)

\* label = f"{provider}__{sanitize_label(model)}"
MakeLabel(providerText, model) == providerText \o LABEL_SEP \o sanitize_label(model)

\* the loop over raw_list; acc = [die, runners, found_codex_model]
RECURSIVE ParseLoop(_, _, _, _)
ParseLoop(c, raw_list, k, acc) ==
    IF k > Len(raw_list) THEN acc
    ELSE
      LET raw      == NormalizeEntry(raw_list[k])
          parts    == Split1(raw, COLON)
          provider == parts[1]
          given    == IF Len(parts) > 1 THEN parts[2] ELSE <<>>
      IN  IF raw = <<>> THEN ParseLoop(c, raw_list, k + 1, acc)
          ELSE IF provider = GEMINI THEN
            LET model == IF given = <<>> THEN c.gemini_model ELSE given
                r == [provider |-> "gemini", model |-> model,
                      label |-> MakeLabel(GEMINI, model)]
            IN  ParseLoop(c, raw_list, k + 1,
                          [acc EXCEPT !.runners = Append(@, r)])
          ELSE IF provider = CODEX THEN
            LET model == IF given = <<>> THEN c.codex_model ELSE given
                r == [provider |-> "codex", model |-> model,
                      label |-> MakeLabel(CODEX, model)]
            IN  ParseLoop(c, raw_list, k + 1,
                          [acc EXCEPT !.runners = Append(@, r),
                                      !.found_codex_model =
                                          IF @ = <<>> /\ model # <<>> THEN model ELSE @])
          ELSE [acc EXCEPT !.die = TRUE]

ParseModels(c) ==
    ParseLoop(c, Split(c.models_csv, COMMA), 1,
              [die |-> FALSE, runners |-> <<>>, found_codex_model |-> <<>>])

(***************************************************************************)
(* execute_parallel: the task list and the artifact names of a task.       *)
(***************************************************************************)
\* tasks = [(provider, model, label, i) for each runner, for i in 1..iterations]
BuildTasks(runners, iterations) ==
    [k \in 1..(Len(runners) * iterations) |->
        LET r == runners[((k - 1) \div iterations) + 1]
        IN  [provider |-> r.provider, model |-> r.model, label |-> r.label,
             i |-> ((k - 1) % iterations) + 1]]

\* base_name = f"{label}_run_{i}"
BaseName(task) == task.label \o RUN_INFIX \o Str(task.i)

\* out_txt = runs_dir / f"{base_name}.txt" (the name inside runs_dir)
OutTxt(task) == BaseName(task) \o TXT

\* log_file = runs_dir / f"{base_name}.log"
LogFile(task) == BaseName(task) \o LOG

\* json_out = output_path.with_suffix(".json"), Variant A only
JsonOut(task) == with_suffix(OutTxt(task), JSON)

\* every file a task's invoker call opens for writing
WritePaths(task) ==
    {OutTxt(task), LogFile(task)} \cup
    (IF task.provider = "gemini" THEN {JsonOut(task)} ELSE {})

(***************************************************************************)
(* Paths below outdir.  A path is the sequence of its components: <<name>> *)
(* is outdir / name and <<RUNS, name>> is outdir / "Runs" / name.          *)
(***************************************************************************)
\* "Runs"
RUNS == <<82, 117, 110, 115>>
\* "prompt.txt"
PROMPT_TXT == <<112, 114, 111, 109, 112, 116, 46, 116, 120, 116>>
\* "merge_prompt.txt"
MERGE_PROMPT_TXT == <<109, 101, 114, 103, 101, 95, 112, 114, 111, 109, 112, 116, 46, 116, 120, 116>>
\* "final.txt"
FINAL_TXT == <<102, 105, 110, 97, 108, 46, 116, 120, 116>>
\* "final.log"
FINAL_LOG == <<102, 105, 110, 97, 108, 46, 108, 111, 103>>
\* "final.rtf"
FINAL_RTF == <<102, 105, 110, 97, 108, 46, 114, 116, 102>>
\* "final.docx"
FINAL_DOCX == <<102, 105, 110, 97, 108, 46, 100, 111, 99, 120>>
\* "pre_report.html"
PRE_REPORT_HTML == <<112, 114, 101, 95, 114, 101, 112, 111, 114, 116, 46, 104, 116, 109, 108>>
\* "post_report.html"
POST_REPORT_HTML == <<112, 111, 115, 116, 95, 114, 101, 112, 111, 114, 116, 46, 104, 116, 109, 108>>

OutdirPath(name) == <<name>>

\* runs_dir = outdir / "Runs"
RunsPath(name) == <<RUNS, name>>

\* prompt_canon = outdir / "prompt.txt"
PromptCanonPath == OutdirPath(PROMPT_TXT)

\* the paths a fan-out task's invoker call opens for writing
TaskPaths(task) == { RunsPath(n) : n \in WritePaths(task) }

(***************************************************************************)
(* Provider Invoker: GeminiRunner.run and CodexRunner.run.                 *)
(* The environment of one call is a record e:                              *)
(*   promptOk, jsonOk, logOk, outOk  whether open() of that path succeeds  *)
(*   proc      "exit0", "exitN" (CalledProcessError), "overrun" (the       *)
(*             process runs past any timeout) or "notfound" (the           *)
(*             executable is not on PATH: subprocess.run raises            *)
(*             FileNotFoundError, an IOError)                              *)
(*   code      the nonzero exit status when proc = "exitN"                 *)
(*   envelope  what json.load finds in json_out: "valid" (an object),      *)
(*             "malformed" (JSONDecodeError), "nonobject" (valid JSON that *)
(*             is no object, so data.get raises AttributeError)            *)
(* The result is [ret, out]: ret is "True", "False", "raised" (an          *)
(* exception leaves run) or "blocked" (run does not return); out is what   *)
(* the call last wrote to output_path, NoWrite when it wrote nothing.      *)
(***************************************************************************)
ExitCodes == {1, 2}

NoWrite == [kind |-> "nowrite", provider |-> "", code |-> 0]

\* the text the backend answered with
Answer(p) == [kind |-> "answer", provider |-> p, code |-> 0]

\* f"[{p}] ERROR: Command failed with exit code {e.returncode}."
ExitMarker(p, code) == [kind |-> "exit", provider |-> p, code |-> code]

\* f"[{p}] ERROR: {str(e)} (see {log_path})" for a TimeoutExpired,
\* a JSONDecodeError or an IOError
ErrorMarker(p, what) == [kind |-> what, provider |-> p, code |-> 0]

Returned(ret, out) == [ret |-> ret, out |-> out]

\* `with open(output_path, 'w') as f: f.write(msg)` inside an except clause:
\* a failing open raises out of run
WriteMarker(e, msg) ==
    IF e.outOk THEN Returned("False", msg) ELSE Returned("raised", NoWrite)

GeminiRunner_run(e, timeout) ==
    IF ~(e.promptOk /\ e.jsonOk /\ e.logOk)
    THEN WriteMarker(e, ErrorMarker("gemini", "io"))
    ELSE IF e.proc = "notfound"
    THEN WriteMarker(e, ErrorMarker("gemini", "io"))
    ELSE IF e.proc = "overrun"
    THEN IF timeout > 0
         THEN WriteMarker(e, ErrorMarker("gemini", "timeout"))
         ELSE Returned("blocked", NoWrite)
    ELSE IF e.proc = "exitN"
    THEN WriteMarker(e, ExitMarker("gemini", e.code))
    ELSE IF e.envelope = "malformed"
    THEN WriteMarker(e, ErrorMarker("gemini", "decode"))
    ELSE IF e.envelope = "nonobject"
    THEN Returned("raised", NoWrite)
    ELSE IF e.outOk
    THEN Returned("True", Answer("gemini"))
    ELSE WriteMarker(e, ErrorMarker("gemini", "io"))

CodexRunner_run(e, timeout) ==
    IF ~(e.promptOk /\ e.outOk /\ e.logOk)
    THEN WriteMarker(e, ErrorMarker("codex", "io"))
    ELSE IF e.proc = "notfound"
    THEN WriteMarker(e, ErrorMarker("codex", "io"))
    ELSE IF e.proc = "overrun"
    THEN IF timeout > 0
         THEN WriteMarker(e, ErrorMarker("codex", "timeout"))
         ELSE Returned("blocked", NoWrite)
    ELSE IF e.proc = "exitN"
    THEN WriteMarker(e, ExitMarker("codex", e.code))
    ELSE Returned("True", Answer("codex"))

\* the call execute_parallel submits for a task, and merge makes
RunnerRun(provider, e, timeout) ==
    IF provider = "gemini" THEN GeminiRunner_run(e, timeout)
    ELSE CodexRunner_run(e, timeout)

\* whether every open() at the head of run succeeds, so the process starts
OpensSucceed(provider, e) ==
    IF provider = "gemini" THEN e.promptOk /\ e.jsonOk /\ e.logOk
    ELSE e.promptOk /\ e.outOk /\ e.logOk

RunEnv(promptOk, jsonOk, logOk, outOk, proc, code, envelope) ==
    [promptOk |-> promptOk, jsonOk |-> jsonOk, logOk |-> logOk, outOk |-> outOk,
     proc |-> proc, code |-> code, envelope |-> envelope]

\* environments in which an open at the head of run fails
OpenFailEnvs ==
    { RunEnv(a, b, c, d, "exit0", 0, "valid") :
        a \in BOOLEAN, b \in BOOLEAN, c \in BOOLEAN, d \in BOOLEAN }

\* the artifacts the with-statement at the head of run opens for writing:
\* the opens happen in order and stop at the first that fails
OpenedForWrite(provider, e, task) ==
    IF provider = "gemini"
    THEN (IF e.promptOk /\ e.jsonOk THEN {JsonOut(task)} ELSE {})
         \cup (IF e.promptOk /\ e.jsonOk /\ e.logOk THEN {LogFile(task)} ELSE {})
    ELSE (IF e.promptOk /\ e.outOk THEN {OutTxt(task)} ELSE {})
         \cup (IF e.promptOk /\ e.outOk /\ e.logOk THEN {LogFile(task)} ELSE {})

\* a file open(.., 'w') has just truncated
Truncated == [kind |-> "truncated", provider |-> "", code |-> 0]

\* what the process wrote to its stderr file
LogText(p) == [kind |-> "log", provider |-> p, code |-> 0]

\* what the gemini process wrote to json_out
Envelope(p) == [kind |-> "envelope", provider |-> p, code |-> 0]

\* content an earlier run with the same outdir left behind
Stale == [kind |-> "stale", provider |-> "", code |-> 0]

\* environment in which every open succeeds but the executable is missing
NotFoundEnvs ==
    { RunEnv(TRUE, TRUE, TRUE, d, "notfound", 0, "valid") : d \in BOOLEAN }

\* environments in which the process was started
ProcEnvs(provider) ==
    { RunEnv(TRUE, TRUE, TRUE, d, pr, cd, en) :
        d \in (IF provider = "codex" THEN {TRUE} ELSE BOOLEAN),
        pr \in {"exit0", "exitN", "overrun"},
        cd \in ExitCodes,
        en \in (IF provider = "codex" THEN {"valid"}
                ELSE {"valid", "malformed", "nonobject"}) }

(***************************************************************************)
(* list.sort(key=lambda p: p.name): a stable ascending sort by name.       *)
(***************************************************************************)
\* SortRank as it would be if the sort were descending
SortRank_Descending(paths, k) ==
    Cardinality({ j \in 1..Len(paths) : StrLess(paths[k], paths[j]) })
    + Cardinality({ j \in 1..(k - 1) : paths[j] = paths[k] })
    + 1

\* the place of paths[k] in the sorted list: behind every smaller name and
\* behind the equal names that precede it (the sort is stable)
SortRank(paths, k) ==
    Cardinality({ j \in 1..Len(paths) : StrLess(paths[j], paths[k]) })
    + Cardinality({ j \in 1..(k - 1) : paths[j] = paths[k] })
    + 1

SortByName(paths) ==
    [pos \in 1..Len(paths) |->
        paths[CHOOSE k \in 1..Len(paths) : SortRank(paths, k) = pos]]

(***************************************************************************)
(* process_context_files.  A context file is a record:                     *)
(*   exists   whether ctx_file.exists()                                    *)
(*   name     ctx_file.name                                                *)
(*   bytes    read_bytes() of a plain file; for a .pdf or .docx file, the  *)
(*            text a successful extraction yields                          *)
(*   extract  how the extraction of a .pdf or .docx file goes: "ok",       *)
(*            "notool" (shutil.which finds no pdftotext), "error"          *)
(*            (pdftotext exits nonzero) or "malformed" (the docx container *)
(*            cannot be read or parsed)                                    *)
(***************************************************************************)
\* largest number of bytes of a plain-text context file
MaxBytes == 2

\* the byte b'\0'
NUL == 0

\* byte values of plain files: NUL, "a", and 0xC3 0xA9, which together are
\* the UTF-8 encoding of U+00E9 and alone are invalid UTF-8
CtxBytes == {NUL, 97, 195, 169}

\* ".pdf"
PDF == <<46, 112, 100, 102>>
\* ".docx"
DOCX == <<46, 100, 111, 99, 120>>
\* "n", a file name without a suffix
NAME_PLAIN == <<110>>
\* "a.PDF"
NAME_PDF == <<97, 46, 80, 68, 70>>
\* "b.docx"
NAME_DOCX == <<98, 46, 100, 111, 99, 120>>

\* "[Context File: "
BANNER_OPEN == <<91, 67, 111, 110, 116, 101, 120, 116, 32, 70, 105, 108, 101, 58, 32>>
\* "]\n<<<\n"
BANNER_CLOSE == <<93, 10, 60, 60, 60, 10>>
\* "\n>>>\n"
UNIT_CLOSE == <<10, 62, 62, 62, 10>>
\* "[Error extracting text from PDF: "
PDF_ERROR == <<91, 69, 114, 114, 111, 114, 32, 101, 120, 116, 114, 97, 99, 116, 105, 110, 103, 32, 116, 101, 120, 116, 32, 102, 114, 111, 109, 32, 80, 68, 70, 58, 32>>
\* "[Missing 'pdftotext' tool - could not read "
PDF_NOTOOL == <<91, 77, 105, 115, 115, 105, 110, 103, 32, 39, 112, 100, 102, 116, 111, 116, 101, 120, 116, 39, 32, 116, 111, 111, 108, 32, 45, 32, 99, 111, 117, 108, 100, 32, 110, 111, 116, 32, 114, 101, 97, 100, 32>>
\* "[Error extracting text from DOCX: "
DOCX_ERROR == <<91, 69, 114, 114, 111, 114, 32, 101, 120, 116, 114, 97, 99, 116, 105, 110, 103, 32, 116, 101, 120, 116, 32, 102, 114, 111, 109, 32, 68, 79, 67, 88, 58, 32>>
\* "]"
BRACKET == <<93>>

CtxFile(exists, name, bytes, extract) ==
    [exists |-> exists, name |-> name, bytes |-> bytes, extract |-> extract]

\* PurePath.suffix of a file name: from the last dot on, "" when there is
\* no dot or the only dot is the first or the last character
Suffix(name) ==
    LET k == LastIndexOf(name, DOT)
    IN  IF k > 1 /\ k < Len(name) THEN SubSeq(name, k, Len(name)) ELSE <<>>

\* the branch ctx_file.suffix.lower() selects
CtxKind(f) ==
    IF Lower(Suffix(f.name)) = PDF THEN "pdf"
    ELSE IF Lower(Suffix(f.name)) = DOCX THEN "docx"
    ELSE "plain"

extract_text_from_pdf(f) ==
    IF f.extract = "notool" THEN PDF_NOTOOL \o f.name \o BRACKET
    ELSE IF f.extract = "error" THEN PDF_ERROR \o f.name \o BRACKET
    ELSE f.bytes

extract_text_from_docx(f) ==
    IF f.extract # "ok" THEN DOCX_ERROR \o f.name \o BRACKET
    ELSE f.bytes

\* a UTF-8 continuation byte
IsCont(b) == b >= 128 /\ b <= 191

\* bytes.decode('utf-8'), strict, from position k on: [ok, text]
RECURSIVE Utf8DecodeFrom(_, _, _)
Utf8DecodeFrom(b, k, acc) ==
    IF k > Len(b) THEN [ok |-> TRUE, text |-> acc]
    ELSE IF b[k] < 128
    THEN Utf8DecodeFrom(b, k + 1, Append(acc, b[k]))
    ELSE IF b[k] >= 194 /\ b[k] <= 223
    THEN IF k + 1 <= Len(b) /\ IsCont(b[k + 1])
         THEN Utf8DecodeFrom(b, k + 2,
                  Append(acc, (b[k] - 192) * 64 + (b[k + 1] - 128)))
         ELSE [ok |-> FALSE, text |-> <<>>]
    ELSE IF b[k] >= 224 /\ b[k] <= 239
    THEN IF /\ k + 2 <= Len(b)
            /\ IsCont(b[k + 1]) /\ IsCont(b[k + 2])
            /\ (b[k] = 224 => b[k + 1] >= 160)
            /\ (b[k] = 237 => b[k + 1] <= 159)
         THEN Utf8DecodeFrom(b, k + 3,
                  Append(acc, (b[k] - 224) * 4096 + (b[k + 1] - 128) * 64
                              + (b[k + 2] - 128)))
         ELSE [ok |-> FALSE, text |-> <<>>]
    ELSE IF b[k] >= 240 /\ b[k] <= 244
    THEN IF /\ k + 3 <= Len(b)
            /\ IsCont(b[k + 1]) /\ IsCont(b[k + 2]) /\ IsCont(b[k + 3])
            /\ (b[k] = 240 => b[k + 1] >= 144)
            /\ (b[k] = 244 => b[k + 1] <= 143)
         THEN Utf8DecodeFrom(b, k + 4,
                  Append(acc, (b[k] - 240) * 262144 + (b[k + 1] - 128) * 4096
                              + (b[k + 2] - 128) * 64 + (b[k + 3] - 128)))
         ELSE [ok |-> FALSE, text |-> <<>>]
    ELSE [ok |-> FALSE, text |-> <<>>]

Utf8Decode(b) == Utf8DecodeFrom(b, 1, <<>>)

\* bytes.decode('latin-1'): every byte is the code point of its own value
Latin1Decode(b) == [k \in 1..Len(b) |-> b[k]]

\* b'\0' in raw_ctx
HasNul(b) == \E k \in 1..Len(b) : b[k] = NUL

\* one pass of the loop body for a file: die is the die() reached ("" when
\* none), text the ctx_text appended, warned whether the fallback warning
\* was logged
CtxResult(die, text, warned) == [die |-> die, text |-> text, warned |-> warned]

\* the loop body as it would be if a failed extraction ended the run
process_context_file_ExtractDies(f) ==
    IF ~f.exists THEN CtxResult("missing", <<>>, FALSE)
    ELSE IF CtxKind(f) # "plain" /\ f.extract # "ok"
    THEN CtxResult("extract", <<>>, FALSE)
    ELSE IF CtxKind(f) = "pdf" THEN CtxResult("", extract_text_from_pdf(f), FALSE)
    ELSE IF CtxKind(f) = "docx" THEN CtxResult("", extract_text_from_docx(f), FALSE)
    ELSE IF HasNul(f.bytes) THEN CtxResult("binary", <<>>, FALSE)
    ELSE IF Utf8Decode(f.bytes).ok
    THEN CtxResult("", Utf8Decode(f.bytes).text, FALSE)
    ELSE CtxResult("", Latin1Decode(f.bytes), TRUE)

process_context_file(f) ==
    IF ~f.exists THEN CtxResult("missing", <<>>, FALSE)
    ELSE IF CtxKind(f) = "pdf" THEN CtxResult("", extract_text_from_pdf(f), FALSE)
    ELSE IF CtxKind(f) = "docx" THEN CtxResult("", extract_text_from_docx(f), FALSE)
    ELSE IF HasNul(f.bytes) THEN CtxResult("binary", <<>>, FALSE)
    ELSE IF Utf8Decode(f.bytes).ok
    THEN CtxResult("", Utf8Decode(f.bytes).text, FALSE)
    ELSE CtxResult("", Latin1Decode(f.bytes), TRUE)

\* the state of a call of process_context_files: pos is the file the loop
\* is at, block the entries of formatted_content
IngestStart(files) ==
    [files |-> files, pos |-> 1, die |-> "", block |-> <<>>, returned |-> FALSE,
     result |-> <<>>]

\* an entry of formatted_content: the name and the text the f-string of
\* line 398 is given
Unit(name, text, warned) == [name |-> name, text |-> text, warned |-> warned]

\* the loop body as it would be if each unit were put at the front of
\* formatted_content
IngestStep_Prepend(g) ==
    LET f == g.files[g.pos]
        r == process_context_file(f)
    IN  IF r.die # "" THEN [g EXCEPT !.die = r.die]
        ELSE [g EXCEPT !.block = <<Unit(f.name, r.text, r.warned)>> \o @,
                       !.pos = @ + 1]

\* one pass of the loop
IngestStep(g) ==
    LET f == g.files[g.pos]
        r == process_context_file(f)
    IN  IF r.die # "" THEN [g EXCEPT !.die = r.die]
        ELSE [g EXCEPT !.block = Append(@, Unit(f.name, r.text, r.warned)),
                       !.pos = @ + 1]

\* f"[Context File: {ctx_file.name}]\n<<<\n{ctx_text}\n>>>\n"
FormatUnit(u) == BANNER_OPEN \o u.name \o BANNER_CLOSE \o u.text \o UNIT_CLOSE

\* "".join(formatted_content)
RECURSIVE JoinUnits(_)
JoinUnits(block) ==
    IF block = <<>> THEN <<>>
    ELSE FormatUnit(Head(block)) \o JoinUnits(Tail(block))

\* the whole call: the loop, then return "".join(formatted_content)
RECURSIVE IngestRun(_)
IngestRun(g) ==
    IF g.die # "" THEN g
    ELSE IF g.pos > Len(g.files)
    THEN [g EXCEPT !.returned = TRUE, !.result = JoinUnits(g.block)]
    ELSE IngestRun(IngestStep(g))

process_context_files(files) == IngestRun(IngestStart(files))

\* byte strings of at most n bytes
RECURSIVE BytesUpTo(_)
BytesUpTo(n) ==
    IF n = 0 THEN {<<>>}
    ELSE BytesUpTo(n - 1) \cup
         { Append(b, x) : b \in { c \in BytesUpTo(n - 1) : Len(c) = n - 1 },
                          x \in CtxBytes }

\* the context files explored: a missing one, .pdf and .docx files with
\* every outcome of their extraction, and every plain file of at most
\* MaxBytes bytes
CtxFiles ==
    { CtxFile(FALSE, NAME_PLAIN, <<>>, "ok") }
    \cup { CtxFile(TRUE, NAME_PDF, <<97>>, x) : x \in {"ok", "notool", "error"} }
    \cup { CtxFile(TRUE, NAME_DOCX, <<97>>, x) : x \in {"ok", "malformed"} }
    \cup { CtxFile(TRUE, NAME_PLAIN, b, "ok") : b \in BytesUpTo(MaxBytes) }

\* the lists of context files explored: none, one or two files
CtxLists ==
    {<<>>} \cup { <<f>> : f \in CtxFiles } \cup { <<f, g>> : f \in CtxFiles, g \in CtxFiles }

(***************************************************************************)
(* validate_and_setup, step 2: the prompt.  The prompt a run is given is a *)
(* record:                                                                 *)
(*   kind    "file" (cfg.prompt_file), "text" (cfg.prompt_text), "stdin"   *)
(*           (neither, and stdin is not a terminal) or "tty" (neither,     *)
(*           and stdin is a terminal)                                      *)
(*   exists  whether cfg.prompt_file.exists()                              *)
(*   bytes   the bytes of the file, or of the text                         *)
(***************************************************************************)
PromptSrc(kind, exists, bytes) == [kind |-> kind, exists |-> exists, bytes |-> bytes]

\* what reading the prompt gave: die is the die() reached ("" when none),
\* content the text read, warned whether the fallback warning was logged
PromptResult(die, content, warned) ==
    [die |-> die, content |-> content, warned |-> warned]

\* lines 454-471 as they would be without the st_size check
ReadPrompt_NoSizeCheck(src) ==
    IF src.kind = "file"
    THEN IF ~src.exists THEN PromptResult("missing", <<>>, FALSE)
         ELSE IF Utf8Decode(src.bytes).ok
         THEN PromptResult("", Utf8Decode(src.bytes).text, FALSE)
         ELSE IF HasNul(src.bytes) THEN PromptResult("binary", <<>>, FALSE)
         ELSE PromptResult("", Latin1Decode(src.bytes), TRUE)
    ELSE IF src.kind \in {"text", "stdin"}
    THEN PromptResult("", src.bytes, FALSE)
    ELSE PromptResult("none", <<>>, FALSE)

\* lines 454-480: the file is decoded as UTF-8 first, and scanned for a NUL
\* byte only when that fails
ReadPrompt(src) ==
    IF src.kind = "file"
    THEN IF ~src.exists THEN PromptResult("missing", <<>>, FALSE)
         ELSE IF Len(src.bytes) = 0 THEN PromptResult("empty", <<>>, FALSE)
         ELSE IF Utf8Decode(src.bytes).ok
         THEN PromptResult("", Utf8Decode(src.bytes).text, FALSE)
         ELSE IF HasNul(src.bytes) THEN PromptResult("binary", <<>>, FALSE)
         ELSE PromptResult("", Latin1Decode(src.bytes), TRUE)
    ELSE IF src.kind \in {"text", "stdin"}
    THEN PromptResult("", src.bytes, FALSE)
    ELSE PromptResult("none", <<>>, FALSE)

\* the prompt has not been read yet
NewPrompt(src) ==
    [src |-> src, read |-> FALSE, die |-> "", content |-> <<>>, warned |-> FALSE]

\* the prompt after lines 454-480 ran
PromptRead(src) ==
    [src |-> src, read |-> TRUE, die |-> ReadPrompt(src).die,
     content |-> ReadPrompt(src).content, warned |-> ReadPrompt(src).warned]

\* the prompts of the runs explored: a text, a missing file, an empty file,
\* a file that is not UTF-8 and holds a NUL byte, and no prompt at all
MainPrompts ==
    { PromptSrc("text", FALSE, <<97>>),
      PromptSrc("file", FALSE, <<>>),
      PromptSrc("file", TRUE, <<>>),
      PromptSrc("file", TRUE, <<195, NUL>>),
      PromptSrc("tty", FALSE, <<>>) }

\* every prompt: a file of at most MaxBytes bytes, a text, piped stdin
\* (which may be empty), or none
PromptSrcs ==
    { PromptSrc("file", FALSE, <<>>), PromptSrc("text", FALSE, <<97>>),
      PromptSrc("stdin", FALSE, <<>>), PromptSrc("stdin", FALSE, <<97>>),
      PromptSrc("tty", FALSE, <<>>) }
    \cup { PromptSrc("file", TRUE, b) : b \in BytesUpTo(MaxBytes) }

(***************************************************************************)
(* State.                                                                  *)
(***************************************************************************)
VARIABLES
    cfg,            \* the Config of the run
    on_path,        \* per provider: shutil.which finds its executable
    ingest,         \* process_context_files: the files, the loop position
                    \* and what has been produced so far
    prompt_in,      \* the prompt the run is given, and what reading it gave
    pc,             \* where main() is: "setup", "execute", "submit",
                    \* "collect", "merge", "invoke", "done", "aborted"
    abort,          \* the die() message class that ended the run, "" if none
    prompt_canon,   \* outdir/prompt.txt: how often it was written, and
                    \* its content
    runners_list,   \* EnsembleApp.runners_list
    tasks,          \* the task list of execute_parallel
    submitted,      \* number of tasks handed to executor.submit
    future,         \* per task: the state of its future
    results,        \* the results list of execute_parallel
    thread_errors,  \* per task: "Unexpected error in thread" lines logged
    runs_dir,       \* output artifacts in outdir/Runs: name -> content
    merge_prompt,   \* outdir/merge_prompt.txt: its sections, <<>> if absent
    merge_env,      \* what merge read of the merge configuration
    merge_calls,    \* per provider: runner calls made by merge
    final_out,      \* outcome of the merge invocation and outdir/final.txt
    label,          \* a call of sanitize_label: its argument and results
    opt,            \* the prompt optimizer (src/prompt_optimizer.py): its
                    \* execute_llm calls, its temporary files and its
                    \* two output panes
    gui             \* the ensemble GUI (src/llm_ensemble_gui.py): its
                    \* widgets, its Human-in-the-Loop state and its
                    \* worker thread

\* the state outside a run of the engine
other_vars == <<label, opt, gui>>

vars == <<other_vars, cfg, on_path, ingest, prompt_in, pc, abort, prompt_canon, runners_list, tasks,
          submitted, future, results, thread_errors, runs_dir, merge_prompt,
          merge_env, merge_calls, final_out>>

\* a future: status "queued" (in the executor's work queue), "running"
\* (a worker thread is inside run) or "done"; ret is how run ended; proc is
\* what its process did ("none" when no process was started); wrote is what
\* the call wrote to its output path; collected says as_completed has
\* yielded it; calls counts the calls of run made for the task; prompt is
\* the content of the prompt file its process was given as stdin ("unread"
\* when no process was started); envelope is what json.load found in
\* json_out ("none" when json_out was not read)
NewFuture ==
    [status |-> "queued", ret |-> "none", proc |-> "none", code |-> 0,
     envelope |-> "none",
     wrote |-> NoWrite, collected |-> FALSE, calls |-> 0, prompt |-> "unread"]

TaskIds == 1..Len(tasks)

Submitted(t) == t \in 1..submitted

Finished(t) == Submitted(t) /\ future[t].status = "done"

\* tasks whose invoker call met a failure
Faulty == { t \in 1..submitted : future[t].ret \in {"False", "raised"} }

\* a file after a step that opened the paths `written` for writing
FileAfter(file, path, written) ==
    IF path \in written
    THEN [writes |-> file.writes + 1, text |-> "clobbered"]
    ELSE file

\* outdir/Runs after the names `names` were given the content `content`
WriteFiles(dir, names, content) ==
    [n \in (DOMAIN dir) \cup names |-> IF n \in names THEN content ELSE dir[n]]

\* outdir/Runs as an earlier run of the same configuration, in which every
\* task answered, left it
PriorRun(c) ==
    LET parsed == ParseModels(c)
        prior  == IF parsed.die THEN <<>>
                  ELSE BuildTasks(parsed.runners, c.iterations)
    IN  WriteFiles(<<>>, UNION { WritePaths(prior[k]) : k \in 1..Len(prior) }, Stale)

\* merge has read nothing of the merge configuration yet
NoMergeEnv == [prompt_file |-> "unread", prompt_text |-> FALSE, context |-> "unread"]

NoFinalOut ==
    [called |-> FALSE, success |-> FALSE, text |-> NoWrite, model |-> <<>>,
     reasoning |-> "", final_text |-> NoWrite, warned |-> FALSE,
     reported |-> FALSE]

\* sanitize_label has not been called
NoLabel == [text |-> <<>>, applied |-> 0, once |-> <<>>, twice |-> <<>>]

\* the prompt optimizer after PromptOptimizerApp.__init__: no call made, no
\* temporary file, both output panes empty
NoOpt ==
    [calls |-> <<>>, files |-> <<>>,
     pane |-> [p \in Providers |-> "empty"]]

\* the ensemble GUI after EnsembleGUI.__init__: the check boxes ticked, the
\* text boxes empty, nothing cached, no worker thread
NoGui ==
    [prompt_text |-> <<>>, merge_prompt_text |-> <<>>,
     pre_report_var |-> TRUE, hitl_var |-> TRUE,
     use_gemini |-> TRUE, use_codex |-> TRUE,
     cached_results |-> "None", cached_app |-> "None",
     is_merging_phase |-> FALSE,
     run_btn |-> [state |-> "normal", text |-> "RUN ENSEMBLE"],
     thread |-> "none", presses |-> 0,
     models_list |-> <<>>, calls |-> <<>>, log_text |-> <<>>]

\* nothing outside the run has happened
OtherInit == label = NoLabel /\ opt = NoOpt /\ gui = NoGui

\* the variables of a run, but for cfg, on_path, runs_dir and ingest
InitRun ==
    /\ pc = "setup"
    /\ abort = ""
    /\ prompt_canon = [writes |-> 0, text |-> "absent"]
    /\ runners_list = <<>>
    /\ tasks = <<>>
    /\ submitted = 0
    /\ future = <<>>
    /\ results = <<>>
    /\ thread_errors = <<>>
    /\ merge_prompt = <<>>
    /\ merge_env = NoMergeEnv
    /\ merge_calls = [p \in Providers |-> 0]
    /\ final_out = NoFinalOut

Init ==
    /\ cfg \in Configs
    /\ on_path \in [Providers -> BOOLEAN]
    /\ ingest = IngestStart(<<>>)
    /\ prompt_in \in { NewPrompt(src) : src \in MainPrompts }
    /\ runs_dir = <<>>
    /\ InitRun
    /\ OtherInit

\* a run into an outdir that an earlier run of the same configuration used
RerunInit ==
    /\ cfg \in Configs
    /\ on_path \in [Providers -> BOOLEAN]
    /\ ingest = IngestStart(<<>>)
    /\ prompt_in \in { NewPrompt(src) : src \in MainPrompts }
    /\ runs_dir = PriorRun(cfg)
    /\ InitRun
    /\ OtherInit

(***************************************************************************)
(* validate_and_setup.  Its environment:                                   *)
(*   outdirOk  outdir and outdir/Runs can be created                       *)
(*   context   cfg.context_files                                           *)
(***************************************************************************)
\* the lists of context files a run is given: none, a readable one, a
\* missing one, one with a NUL byte, one that is not UTF-8
SetupContexts ==
    { <<>>,
      <<CtxFile(TRUE, NAME_PLAIN, <<97>>, "ok")>>,
      <<CtxFile(FALSE, NAME_PLAIN, <<>>, "ok")>>,
      <<CtxFile(TRUE, NAME_PLAIN, <<97, NUL>>, "ok")>>,
      <<CtxFile(TRUE, NAME_PLAIN, <<195>>, "ok")>> }

SetupEnvs ==
    [outdirOk : BOOLEAN,
     context : SetupContexts]

\* step 5: check_dependency of the runners the checks look at
DependencyDie(runners, which) ==
    LET need_gemini == \E k \in 1..Len(runners) : runners[k].provider = "gemini"
    IN  IF need_gemini /\ ~which["gemini"] THEN "gemini not found"
        ELSE IF ~which["codex"] THEN "codex not found"
        ELSE ""

\* the die() that validate_and_setup reaches first, "" when it returns
SetupDie(c, e, src, which) ==
    LET parsed == ParseModels(c)
    IN  IF ~e.outdirOk THEN "outdir"
        ELSE IF process_context_files(e.context).die # "" THEN "context"
        ELSE IF ReadPrompt(src).die # "" THEN "prompt"
        ELSE IF parsed.die THEN "unknown provider"
        ELSE IF parsed.runners = <<>> THEN "no valid runners"
        ELSE DependencyDie(parsed.runners, which)

\* whether validate_and_setup gets as far as reading the prompt
SetupReadsPrompt(e) ==
    e.outdirOk /\ process_context_files(e.context).die = ""

\* prompt.txt is written before --models is parsed
SetupWritesPrompt(c, e, src) ==
    SetupReadsPrompt(e) /\ ReadPrompt(src).die = ""

\* step 4 as it would be if the model found among the fan-out runners took
\* precedence over --merge-codex-model
ResolveMergeModel_FoundFirst(c, found_codex_model) ==
    IF found_codex_model # <<>> THEN found_codex_model
    ELSE IF c.merge_codex_model # <<>> THEN c.merge_codex_model
    ELSE c.codex_model

\* step 4: self.merge_codex_model
ResolveMergeModel(c, found_codex_model) ==
    IF c.merge_codex_model # <<>> THEN c.merge_codex_model
    ELSE IF found_codex_model # <<>> THEN found_codex_model
    ELSE c.codex_model

ValidateAndSetup ==
    /\ pc = "setup"
    /\ \E e \in SetupEnvs :
        LET why == SetupDie(cfg, e, prompt_in.src, on_path)
        IN  /\ prompt_in' = IF SetupReadsPrompt(e)
                            THEN PromptRead(prompt_in.src) ELSE prompt_in
            /\ prompt_canon' = IF SetupWritesPrompt(cfg, e, prompt_in.src)
                               THEN [writes |-> prompt_canon.writes + 1,
                                     text |-> "canon"]
                               ELSE prompt_canon
            /\ IF why # ""
               THEN /\ pc' = "aborted"
                    /\ abort' = why
                    /\ UNCHANGED runners_list
               ELSE /\ pc' = "execute"
                    /\ abort' = ""
                    /\ runners_list' = ParseModels(cfg).runners
    /\ UNCHANGED <<other_vars, cfg, on_path, ingest, tasks, submitted, future, results,
                   thread_errors, runs_dir, merge_prompt, merge_env,
                   merge_calls, final_out>>

(***************************************************************************)
(* execute_parallel.                                                       *)
(***************************************************************************)
\* lines 539-545: the task list is built before the executor exists
ExpandTasks ==
    /\ pc = "execute"
    /\ tasks' = BuildTasks(runners_list, cfg.iterations)
    /\ future' = [k \in 1..(Len(runners_list) * cfg.iterations) |-> NewFuture]
    /\ thread_errors' = [k \in 1..(Len(runners_list) * cfg.iterations) |-> 0]
    /\ results' = <<>>
    /\ submitted' = 0
    /\ pc' = "submit"
    /\ UNCHANGED <<other_vars, cfg, on_path, ingest, prompt_in, abort, prompt_canon, runners_list, runs_dir,
                   merge_prompt, merge_env, merge_calls, final_out>>

\* one pass of the submit loop: executor.submit for the next task
Submit ==
    /\ pc = "submit"
    /\ submitted < Len(tasks)
    /\ submitted' = submitted + 1
    /\ pc' = IF submitted + 1 = Len(tasks) THEN "collect" ELSE "submit"
    /\ UNCHANGED <<other_vars, cfg, on_path, ingest, prompt_in, abort, prompt_canon, runners_list, tasks, future,
                   results, thread_errors, runs_dir, merge_prompt, merge_env, merge_calls,
                   final_out>>

\* NextQueued as it would be if a task whose call returned False were put
\* back into the work queue
NextQueued_RetryFailed(t) ==
    /\ Submitted(t)
    /\ \/ future[t].status = "queued"
       \/ future[t].status = "done" /\ future[t].ret = "False"
                                     /\ ~future[t].collected

\* the executor's work queue is FIFO: the next task a worker takes
NextQueued(t) ==
    /\ Submitted(t)
    /\ future[t].status = "queued"
    /\ \A u \in 1..(t - 1) : future[u].status # "queued"

\* whether run gets as far as json.load(f) on json_out
ReadsEnvelope(provider, e, started) ==
    provider = "gemini" /\ started /\ e.proc = "exit0"

\* the state of a future whose call ended with outcome o
Done(f, provider, e, o, started) ==
    [f EXCEPT !.status = "done", !.ret = o.ret, !.wrote = o.out,
              !.proc = IF started THEN e.proc ELSE "none",
              !.code = IF started /\ e.proc = "exitN" THEN e.code ELSE 0,
              !.envelope = IF ReadsEnvelope(provider, e, started)
                           THEN e.envelope ELSE "none"]

\* what a finished call leaves in outdir/Runs
WriteOut(dir, name, o) ==
    IF o.out = NoWrite THEN dir ELSE (name :> o.out) @@ dir

\* what the process of a task wrote to its stderr file and, for Variant A,
\* to json_out
ProcWrote(dir, task) ==
    WriteFiles(WriteFiles(dir, {LogFile(task)}, LogText(task.provider)),
               IF task.provider = "gemini" THEN {JsonOut(task)} ELSE {},
               Envelope(task.provider))

\* an environment in which every open succeeds
AllOpen == RunEnv(TRUE, TRUE, TRUE, TRUE, "exit0", 0, "valid")

\* a worker takes the task and enters run: the artifacts are opened and
\* the process is started, or an open fails and the call ends at once
Start(t) ==
    /\ NextQueued(t)
    /\ \/ /\ future' = [future EXCEPT ![t].status = "running",
                                      ![t].calls = @ + 1,
                                      ![t].prompt = prompt_canon.text]
          /\ runs_dir' = WriteFiles(runs_dir,
                             OpenedForWrite(tasks[t].provider, AllOpen, tasks[t]),
                             Truncated)
       \/ \E e \in OpenFailEnvs :
            LET o == RunnerRun(tasks[t].provider, e, cfg.timeout)
            IN  /\ ~OpensSucceed(tasks[t].provider, e)
                /\ Cardinality(Faulty) < MaxFaults
                /\ future' = [future EXCEPT ![t] =
                                [Done(@, tasks[t].provider, e, o, FALSE) EXCEPT !.calls = @ + 1]]
                /\ runs_dir' = WriteOut(WriteFiles(runs_dir,
                                   OpenedForWrite(tasks[t].provider, e, tasks[t]),
                                   Truncated),
                                 OutTxt(tasks[t]), o)
    /\ prompt_canon' = FileAfter(prompt_canon, PromptCanonPath, TaskPaths(tasks[t]))
    /\ UNCHANGED <<other_vars, cfg, on_path, ingest, prompt_in, pc, abort, runners_list, tasks,
                   submitted, results, thread_errors, merge_prompt, merge_env,
                   merge_calls, final_out>>

\* the process of a running task exits or is killed at the timeout, and run
\* returns or raises
Finish(t) ==
    /\ Submitted(t)
    /\ future[t].status = "running"
    /\ \E e \in ProcEnvs(tasks[t].provider) :
        LET o == RunnerRun(tasks[t].provider, e, cfg.timeout)
        IN  /\ o.ret # "blocked"
            /\ o.ret = "True" \/ Cardinality(Faulty) < MaxFaults
            /\ future' = [future EXCEPT ![t] = Done(@, tasks[t].provider, e, o, TRUE)]
            /\ runs_dir' = WriteOut(ProcWrote(runs_dir, tasks[t]),
                                    OutTxt(tasks[t]), o)
    /\ UNCHANGED <<other_vars, cfg, on_path, ingest, prompt_in, pc, abort, prompt_canon, runners_list,
                   tasks, submitted, results, thread_errors, merge_prompt,
                   merge_env, merge_calls, final_out>>

\* whether as_completed may yield the future of t
Completed(t) == Finished(t) /\ ~future[t].collected

\* Collect as it would be if the path of a task whose call raised were
\* appended as well
Collect_AppendAlways(t) ==
    /\ pc = "collect"
    /\ future[t].status = "done" /\ Submitted(t) /\ ~future[t].collected
    /\ future' = [future EXCEPT ![t].collected = TRUE]
    /\ results' = Append(results, OutTxt(tasks[t]))
    /\ thread_errors' = IF future[t].ret = "raised"
                         THEN [thread_errors EXCEPT ![t] = @ + 1]
                         ELSE thread_errors
    /\ UNCHANGED <<other_vars, cfg, on_path, ingest, prompt_in, pc, abort, prompt_canon,
                   runners_list, tasks, submitted, runs_dir, merge_prompt,
                   merge_env, merge_calls, final_out>>

\* one pass of the as_completed loop: future.result() returns, or raises
\* and the exception is logged
Collect(t) ==
    /\ pc = "collect"
    /\ Completed(t)
    /\ future' = [future EXCEPT ![t].collected = TRUE]
    /\ IF future[t].ret = "raised"
       THEN /\ thread_errors' = [thread_errors EXCEPT ![t] = @ + 1]
            /\ UNCHANGED results
       ELSE /\ results' = Append(results, OutTxt(tasks[t]))
            /\ UNCHANGED thread_errors
    /\ UNCHANGED <<other_vars, cfg, on_path, ingest, prompt_in, pc, abort, prompt_canon, runners_list, tasks, submitted,
                   runs_dir, merge_prompt, merge_env, merge_calls, final_out>>

\* AllCompleted as it would be if the first exception of future.result()
\* left the as_completed loop instead of being caught
AllCompleted_AbortOnRaise ==
    \/ \A t \in TaskIds : Finished(t) /\ future[t].collected
    \/ \E t \in TaskIds : Finished(t) /\ future[t].collected
                            /\ future[t].ret = "raised"

\* AllCompleted as it would be if the futures already finished were
\* gathered without waiting for the others
AllCompleted_NoWait ==
    /\ submitted = Len(tasks)
    /\ \A t \in TaskIds : Finished(t) => future[t].collected

\* as_completed is exhausted and the executor's with-block has joined its
\* workers: every submitted future has been yielded
AllCompleted == \A t \in TaskIds : Finished(t) /\ future[t].collected

\* ReturnOrder as it would be without the sort of line 575
ReturnOrder_CompletionOrder(paths) == paths

\* the order in which execute_parallel returns the collected paths
ReturnOrder(paths) == SortByName(paths)

\* lines 574-576: results.sort(key=...) and return results
Return ==
    /\ pc = "collect"
    /\ AllCompleted
    /\ results' = ReturnOrder(results)
    /\ pc' = "merge"
    /\ UNCHANGED <<other_vars, cfg, on_path, ingest, prompt_in, abort, prompt_canon, runners_list, tasks, submitted,
                   future, thread_errors, runs_dir, merge_prompt, merge_env, merge_calls,
                   final_out>>

(***************************************************************************)
(* merge.  The fields of the configuration and of the file system that     *)
(* only merge reads are drawn where merge reads them:                      *)
(*   prompt_file   cfg.merge_prompt_file: "none", or whether it "exists"   *)
(*                 or is "missing"                                         *)
(*   prompt_text   whether cfg.merge_prompt_text is given                  *)
(*   context       cfg.merge_context_files: "none", all readable ("ok"),   *)
(*                 one "missing", or one "binary"                          *)
(*   writeOk       whether merge_prompt.txt can be opened and written      *)
(***************************************************************************)
MergeEnvs ==
    [prompt_file : {"none", "exists", "missing"},
     prompt_text : BOOLEAN,
     context : {"none", "ok", "missing", "binary"},
     writeOk : BOOLEAN]

\* the die() that merge reaches before it writes the merge prompt
MergeDie(e) ==
    IF e.prompt_file = "missing" THEN "merge prompt file"
    ELSE IF e.context \in {"missing", "binary"} THEN "merge context"
    ELSE ""

\* where the merge instruction comes from
Instruction(e) ==
    IF e.prompt_file = "exists" THEN "file"
    ELSE IF e.prompt_text THEN "text"
    ELSE "default"

Section(sec, name, body) == [sec |-> sec, name |-> name, body |-> body]

\* one candidate: the banner naming the artifact and the artifact's content
Candidate(dir, name) ==
    Section("candidate", name,
            IF name \in DOMAIN dir THEN dir[name]
            ELSE [kind |-> "missing", provider |-> "", code |-> 0])

\* lines 612-629 as they would be if the candidates were written before
\* the original prompt
MergePrompt_CandidatesFirst(e, result_files, dir, canon) ==
    <<Section("instruction", <<>>, Instruction(e))>>
    \o (IF e.context = "ok" THEN <<Section("merge context", <<>>, "")>> ELSE <<>>)
    \o [k \in 1..Len(result_files) |-> Candidate(dir, result_files[k])]
    \o <<Section("original", <<>>, canon)>>
    \o <<Section("final answer", <<>>, "")>>

\* lines 612-629: the sections written to merge_prompt.txt, in order; canon
\* is what prompt_canon.read_text returns
MergePrompt(e, result_files, dir, canon) ==
    <<Section("instruction", <<>>, Instruction(e))>>
    \o (IF e.context = "ok" THEN <<Section("merge context", <<>>, "")>> ELSE <<>>)
    \o <<Section("original", <<>>, canon)>>
    \o [k \in 1..Len(result_files) |-> Candidate(dir, result_files[k])]
    \o <<Section("final answer", <<>>, "")>>

\* merge_prompt_path as it would be if merge wrote its prompt over prompt.txt
MergePromptPath_Canon == PromptCanonPath

\* merge_prompt_path = outdir / "merge_prompt.txt"
MergePromptPath == OutdirPath(MERGE_PROMPT_TXT)

\* final_out as it would be if the merge answer went to the merge prompt file
FinalOutPath_MergePrompt == MergePromptPath

\* final_out = outdir / "final.txt"
FinalOutPath == OutdirPath(FINAL_TXT)

\* final_log = outdir / "final.log"
FinalLogPath == OutdirPath(FINAL_LOG)

\* the paths the merge invocation opens for writing: output, log and, for
\* Variant A, output_path.with_suffix(".json")
MergeRunPaths(p) ==
    {FinalOutPath, FinalLogPath} \cup
    (IF p = "gemini"
     THEN {OutdirPath(with_suffix(FinalOutPath[Len(FinalOutPath)], JSON))}
     ELSE {})

\* what merge writes after the invocation: final.rtf or final.docx, and the
\* post-merge report
MergeAfterPaths ==
    {OutdirPath(FINAL_RTF), OutdirPath(FINAL_DOCX), OutdirPath(POST_REPORT_HTML)}

\* merge_prompt.txt after something else was written over it
Clobbered == <<Section("clobbered", <<>>, "")>>

\* lines 599-646: instruction, merge context, merge prompt artifact and
\* pre-merge report; an open or a read that fails raises out of merge
MergeBuild ==
    /\ pc = "merge"
    /\ \E e \in MergeEnvs :
        IF MergeDie(e) # ""
        THEN /\ pc' = "aborted"
             /\ abort' = MergeDie(e)
             /\ UNCHANGED <<merge_prompt, merge_env, prompt_canon>>
        ELSE IF ~e.writeOk
        THEN /\ pc' = "crashed"
             /\ UNCHANGED <<abort, merge_prompt, merge_env, prompt_canon>>
        ELSE LET canon == FileAfter(prompt_canon, PromptCanonPath,
                                    {MergePromptPath})
             IN  /\ pc' = "invoke"
                 /\ merge_prompt' = MergePrompt(e, results, runs_dir, canon.text)
                 /\ merge_env' = [prompt_file |-> e.prompt_file,
                                  prompt_text |-> e.prompt_text,
                                  context |-> e.context]
                 /\ prompt_canon' = FileAfter(canon, PromptCanonPath,
                                              {OutdirPath(PRE_REPORT_HTML)})
                 /\ UNCHANGED abort
    /\ UNCHANGED <<other_vars, cfg, on_path, ingest, prompt_in, runners_list, tasks, submitted, future,
                   results, thread_errors, runs_dir, merge_calls, final_out>>

\* lines 651-660: the runner merge calls
MergeRunner(c) == IF c.merge_provider = "gemini" THEN "gemini" ELSE "codex"

\* line 649: reasoning = merge_reasoning or codex_reasoning
MergeReasoning(c) ==
    IF c.merge_reasoning # "" THEN c.merge_reasoning ELSE c.codex_reasoning

\* the environments of the merge invocation: an open fails, or the process
\* is started, or the executable is not on PATH
MergeRunEnvs(p, which) ==
    { e \in OpenFailEnvs : ~OpensSucceed(p, e) }
    \cup (IF which[p] THEN ProcEnvs(p) ELSE NotFoundEnvs)

\* lines 648-701: the merge invocation and what follows it; an exception
\* that leaves run leaves merge and main as well
MergeInvoke ==
    /\ pc = "invoke"
    /\ LET p == MergeRunner(cfg)
       IN  \E e \in MergeRunEnvs(p, on_path) :
            LET o == RunnerRun(p, e, cfg.timeout)
                written == MergeRunPaths(p) \cup
                           (IF o.ret = "raised" THEN {} ELSE MergeAfterPaths)
            IN  /\ o.ret # "blocked"
                /\ merge_calls' = [merge_calls EXCEPT ![p] = @ + 1]
                /\ final_out' =
                     [called     |-> TRUE,
                      success    |-> o.ret = "True",
                      text       |-> o.out,
                      model      |-> ResolveMergeModel(cfg,
                                        ParseModels(cfg).found_codex_model),
                      reasoning  |-> MergeReasoning(cfg),
                      final_text |-> IF o.ret = "True" THEN o.out ELSE NoWrite,
                      warned     |-> o.ret = "False",
                      reported   |-> o.ret # "raised"]
                /\ merge_prompt' = IF MergePromptPath \in written
                                   THEN Clobbered ELSE merge_prompt
                /\ prompt_canon' = FileAfter(prompt_canon, PromptCanonPath, written)
                /\ pc' = IF o.ret = "raised" THEN "crashed" ELSE "done"
    /\ UNCHANGED <<other_vars, cfg, on_path, ingest, prompt_in, abort, runners_list, tasks, submitted,
                   future, results, thread_errors, runs_dir, merge_env>>

(***************************************************************************)
(* process_context_files on its own: the loop over a list of files.        *)
(***************************************************************************)
run_vars == <<cfg, on_path, prompt_in, pc, abort, prompt_canon, runners_list, tasks,
              submitted, future, results, thread_errors, runs_dir,
              merge_prompt, merge_env, merge_calls, final_out>>

\* a run of the engine that has not begun
IdleRun ==
    /\ cfg = BaseConfig(CSV_GEMINI, DEFAULT_TIMEOUT, <<>>, "high", "")
    /\ on_path = [p \in Providers |-> TRUE]
    /\ prompt_in = NewPrompt(PromptSrc("text", FALSE, <<97>>))
    /\ runs_dir = <<>>
    /\ InitRun

IngestInit ==
    /\ ingest \in { IngestStart(fs) : fs \in CtxLists }
    /\ IdleRun
    /\ OtherInit

\* one pass of the loop over file_list
IngestFile ==
    /\ ingest.die = ""
    /\ ingest.pos <= Len(ingest.files)
    /\ ingest' = IngestStep(ingest)
    /\ UNCHANGED <<other_vars, run_vars>>

\* return "".join(formatted_content)
IngestReturn ==
    /\ ingest.die = ""
    /\ ingest.pos > Len(ingest.files)
    /\ ~ingest.returned
    /\ ingest' = [ingest EXCEPT !.returned = TRUE,
                                !.result = JoinUnits(ingest.block)]
    /\ UNCHANGED <<other_vars, run_vars>>

IngestNext == IngestFile \/ IngestReturn

IngestSpec == IngestInit /\ [][IngestNext]_vars

(***************************************************************************)
(* sanitize_label on its own: applied to a string, and to its own result.  *)
(***************************************************************************)
\* largest length of an argument of sanitize_label
MaxLabelLen == 3

\* characters of the arguments: "a", "Z", "5", ".", "_", "-", "@", " " and
\* U+00E9
LabelChars == {97, 90, 53, DOT, UNDERSCORE, DASH, 64, SPACE, 233}

\* strings of at most n characters of LabelChars
RECURSIVE LabelTexts(_)
LabelTexts(n) ==
    IF n = 0 THEN {<<>>}
    ELSE LabelTexts(n - 1) \cup
         { Append(t, c) : t \in { u \in LabelTexts(n - 1) : Len(u) = n - 1 },
                          c \in LabelChars }

LabelInit ==
    /\ label \in { [NoLabel EXCEPT !.text = t] : t \in LabelTexts(MaxLabelLen) }
    /\ opt = NoOpt
    /\ gui = NoGui
    /\ ingest = IngestStart(<<>>)
    /\ IdleRun

\* sanitize_label(text)
Sanitize ==
    /\ label.applied = 0
    /\ label' = [label EXCEPT !.applied = 1, !.once = sanitize_label(label.text)]
    /\ UNCHANGED <<opt, gui, ingest, run_vars>>

\* sanitize_label(sanitize_label(text))
SanitizeAgain ==
    /\ label.applied = 1
    /\ label' = [label EXCEPT !.applied = 2, !.twice = sanitize_label(label.once)]
    /\ UNCHANGED <<opt, gui, ingest, run_vars>>

LabelNext == Sanitize \/ SanitizeAgain

LabelSpec == LabelInit /\ [][LabelNext]_vars

(***************************************************************************)
(* The sort of execute_parallel on its own: runs of up to                  *)
(* MaxSortIterations iterations in which every call returned True and      *)
(* every future has been yielded, in task order or in the reverse of it.   *)
(***************************************************************************)
\* largest iteration count of these runs
MaxSortIterations == 10

\* "gemini:a,gemini:a_run_1"
CSV_PREFIX == <<103, 101, 109, 105, 110, 105, 58, 97, 44, 103, 101, 109, 105, 110, 105, 58, 97, 95, 114, 117, 110, 95, 49>>
\* "gemini:a,gemini:a-b"
CSV_DASH == <<103, 101, 109, 105, 110, 105, 58, 97, 44, 103, 101, 109, 105, 110, 105, 58, 97, 45, 98>>

SortConfigs ==
    { [BaseConfig(csv, DEFAULT_TIMEOUT, <<>>, "high", "") EXCEPT !.iterations = n] :
        csv \in {CSV_GEMINI, CSV_GEMINI_CODEX, CSV_GEMINI_X, CSV_PREFIX, CSV_DASH},
        n \in 1..MaxSortIterations }

\* the future of a task whose call returned True and that was yielded
AnsweredFuture(task) ==
    [NewFuture EXCEPT !.status = "done", !.ret = "True", !.proc = "exit0",
                      !.envelope = IF task.provider = "gemini" THEN "valid" ELSE "none",
                      !.wrote = Answer(task.provider), !.collected = TRUE,
                      !.calls = 1, !.prompt = "canon"]

\* outdir/Runs after every task of ts answered: each output holds the
\* answer, each log the stderr text and each json_out the envelope
AnsweredRuns(ts) ==
    [n \in UNION { WritePaths(ts[k]) : k \in 1..Len(ts) } |->
        LET task == ts[CHOOSE k \in 1..Len(ts) : n \in WritePaths(ts[k])]
        IN  IF n = OutTxt(task) THEN Answer(task.provider)
            ELSE IF n = LogFile(task) THEN LogText(task.provider)
            ELSE Envelope(task.provider)]

\* the paths of the tasks in task order
TaskOrder(ts) == [k \in 1..Len(ts) |-> OutTxt(ts[k])]

Reverse(q) == [k \in 1..Len(q) |-> q[Len(q) + 1 - k]]

SortInit ==
    /\ cfg \in SortConfigs
    /\ on_path = [p \in Providers |-> TRUE]
    /\ ingest = IngestStart(<<>>)
    /\ prompt_in = PromptRead(PromptSrc("text", FALSE, <<97>>))
    /\ pc = "collect"
    /\ abort = ""
    /\ prompt_canon = [writes |-> 1, text |-> "canon"]
    /\ runners_list = ParseModels(cfg).runners
    /\ tasks = BuildTasks(runners_list, cfg.iterations)
    /\ submitted = Len(tasks)
    /\ future = [k \in 1..Len(tasks) |-> AnsweredFuture(tasks[k])]
    /\ results \in {TaskOrder(tasks), Reverse(TaskOrder(tasks))}
    /\ thread_errors = [k \in 1..Len(tasks) |-> 0]
    /\ runs_dir = AnsweredRuns(tasks)
    /\ merge_prompt = <<>>
    /\ merge_env = NoMergeEnv
    /\ merge_calls = [p \in Providers |-> 0]
    /\ final_out = NoFinalOut
    /\ OtherInit

SortNext == Return

SortSpec == SortInit /\ [][SortNext]_vars

(***************************************************************************)
(* The prompt optimizer (src/prompt_optimizer.py).  Each button press      *)
(* starts worker threads that call execute_llm.  A call is a record:       *)
(*   provider, kind   "gemini" or "codex"; "optimize" or "refine"          *)
(*   prompt_path, out_path, log_path                                       *)
(*                    the paths the call derived, <<>> before it did       *)
(*   stage            "started", "wrote" (the prompt file is written),     *)
(*                    "ran" (runner.run has returned) or "done"            *)
(*   stdin            the call whose prompt the process was given          *)
(*   shown            the call whose output was put in the pane            *)
(* A temporary file holds the number of the call that wrote it last.       *)
(***************************************************************************)
\* largest number of execute_llm calls
MaxCalls == 4
\* largest value of int(time.time() * 1000)
MaxClock == 2

\* "_{ts}": the braces are escaped in the f-string of line 472
TS_LITERAL == <<95, 123, 116, 115, 125>>
\* ".prompt"
PROMPT_SUFFIX == <<46, 112, 114, 111, 109, 112, 116>>
\* ".out"
OUT_SUFFIX == <<46, 111, 117, 116>>

ProviderText(p) == IF p = "gemini" THEN GEMINI ELSE CODEX

\* base = self.tmp_dir / f"{provider}_{{ts}}" (the name inside tmp_dir)
LlmBase(provider, ts) == ProviderText(provider) \o TS_LITERAL

LlmPromptPath(provider, ts) == with_suffix(LlmBase(provider, ts), PROMPT_SUFFIX)

LlmOutPath(provider, ts) == with_suffix(LlmBase(provider, ts), OUT_SUFFIX)

LlmLogPath(provider, ts) == with_suffix(LlmBase(provider, ts), LOG)

NewCall(provider, kind) ==
    [provider |-> provider, kind |-> kind, stage |-> "started",
     prompt_path |-> <<>>, out_path |-> <<>>, log_path |-> <<>>,
     stdin |-> 0, shown |-> 0]

\* the files a call writes: prompt, output, log and, for gemini,
\* output_path.with_suffix(".json")
CallPaths(c) ==
    {c.prompt_path, c.out_path, c.log_path}
    \cup (IF c.provider = "gemini" THEN {with_suffix(c.out_path, JSON)} ELSE {})

CallIds == 1..Len(opt.calls)

\* the files after call w wrote the paths `written`
LlmWrite(files, written, w) ==
    [n \in (DOMAIN files) \cup written |-> IF n \in written THEN w ELSE files[n]]

OptInit ==
    /\ opt = NoOpt
    /\ label = NoLabel
    /\ gui = NoGui
    /\ ingest = IngestStart(<<>>)
    /\ IdleRun

\* run_optimization with a non-empty draft: both panes are cleared and a
\* gemini and a codex worker thread are started
run_optimization ==
    /\ Len(opt.calls) + 2 <= MaxCalls
    /\ opt' = [opt EXCEPT !.calls = @ \o <<NewCall("gemini", "optimize"),
                                            NewCall("codex", "optimize")>>,
                          !.pane = [p \in Providers |-> "empty"]]
    /\ UNCHANGED <<label, gui, ingest, run_vars>>

\* run_refinement with feedback entered and a non-empty pane: a worker
\* thread is started for the provider
run_refinement(p) ==
    /\ Len(opt.calls) + 1 <= MaxCalls
    /\ opt.pane[p] # "empty"
    /\ opt' = [opt EXCEPT !.calls = Append(@, NewCall(p, "refine"))]
    /\ UNCHANGED <<label, gui, ingest, run_vars>>

\* execute_llm, lines 471-481: ts is read off the clock, the paths are
\* derived and the prompt is written
WritePromptFile(w) ==
    /\ opt.calls[w].stage = "started"
    /\ \E ts \in 0..MaxClock :
        LET p == opt.calls[w].provider
        IN  opt' = [opt EXCEPT
                      !.calls[w].prompt_path = LlmPromptPath(p, ts),
                      !.calls[w].out_path = LlmOutPath(p, ts),
                      !.calls[w].log_path = LlmLogPath(p, ts),
                      !.calls[w].stage = "wrote",
                      !.files = LlmWrite(@, {LlmPromptPath(p, ts)}, w)]
    /\ UNCHANGED <<label, gui, ingest, run_vars>>

\* execute_llm, lines 483-489: runner.run gives the process the prompt file
\* as stdin and writes the output, the log and, for gemini, the envelope
RunLlm(w) ==
    /\ opt.calls[w].stage = "wrote"
    /\ LET c == opt.calls[w]
       IN  opt' = [opt EXCEPT
                     !.calls[w].stdin = opt.files[c.prompt_path],
                     !.calls[w].stage = "ran",
                     !.files = LlmWrite(@, CallPaths(c) \ {c.prompt_path}, w)]
    /\ UNCHANGED <<label, gui, ingest, run_vars>>

\* execute_llm, lines 491-503: the output file is read back and put in the
\* provider's pane
ShowResult(w) ==
    /\ opt.calls[w].stage = "ran"
    /\ LET c == opt.calls[w]
       IN  opt' = [opt EXCEPT
                     !.calls[w].shown = opt.files[c.out_path],
                     !.calls[w].stage = "done",
                     !.pane[c.provider] = "text"]
    /\ UNCHANGED <<label, gui, ingest, run_vars>>

OptNext ==
    \/ run_optimization
    \/ \E p \in Providers : run_refinement(p)
    \/ \E w \in CallIds : WritePromptFile(w)
    \/ \E w \in CallIds : RunLlm(w)
    \/ \E w \in CallIds : ShowResult(w)

OptSpec == OptInit /\ [][OptNext]_vars

(***************************************************************************)
(* The ensemble GUI (src/llm_ensemble_gui.py): the RUN button starts a     *)
(* worker thread that runs run_process.                                    *)
(***************************************************************************)
MaxPresses == 2

\* what the user can have typed in a text box: nothing, a blank, a letter
GuiTexts == {<<>>, <<32>>, <<97>>}

\* how a call into the EnsembleApp ends: it returns, it raises an
\* Exception, or die() raises SystemExit
AppOutcomes == {"returns", "raises", "exits"}

\* self.log(message)
GuiLog(g, message) == [g EXCEPT !.log_text = Append(@, message)]

\* the except clause of run_process: only an Exception is caught, the
\* merging flag is dropped, the caches are left as they are
GuiExcept(g) ==
    [GuiLog(g, "CRITICAL ERROR") EXCEPT
        !.is_merging_phase = FALSE,
        !.run_btn.text = "RUN ENSEMBLE"]

\* the finally clause of run_process, and the end of the thread
GuiFinally(g) == [g EXCEPT !.run_btn.state = "normal", !.thread = "none"]

\* a call app.fn(...) of run_process is recorded in g.calls
AppCall(g, fn, app, res) == [g EXCEPT !.calls = Append(@, <<fn, app, res>>)]

\* how run_process goes on after a call of the app that did not return
AppFails(g, outcome) ==
    IF outcome = "raises" THEN GuiFinally(GuiExcept(g)) ELSE GuiFinally(g)

\* run_process, phase 2: the merge of the cached app on the cached results
MergeOnly(g, merged) ==
    LET resumed == GuiLog(g, "Resuming: Starting Merge Phase...")
        new_merge_prompt == Strip(g.merge_prompt_text)
        called == AppCall(resumed, "merge", g.cached_app, g.cached_results)
    IN  IF new_merge_prompt = <<>> /\ g.hitl_var
        THEN GuiFinally(GuiLog(resumed, "Error: Merge Prompt is mandatory."))
        ELSE IF merged # "returns" THEN AppFails(called, merged)
        ELSE GuiFinally([GuiLog(called, "DONE!") EXCEPT
                            !.is_merging_phase = FALSE,
                            !.cached_results = "None",
                            !.cached_app = "None",
                            !.run_btn.text = "RUN ENSEMBLE"])

\* run_process, lines 248-259: the local name models_list.  No statement of
\* the function or of the module binds it, and self.use_gemini is not
\* read: the first use of the name, the append under "Use Codex" or else
\* the test "not models_list", raises NameError.
GatherModels(g) ==
    LET entry == [bound |-> FALSE, raised |-> FALSE, items |-> <<>>]
        codex == IF g.use_codex
                 THEN IF entry.bound
                      THEN [entry EXCEPT !.items = Append(@, "codex")]
                      ELSE [entry EXCEPT !.raised = TRUE]
                 ELSE entry
    IN  IF codex.raised \/ codex.bound THEN codex
        ELSE [codex EXCEPT !.raised = TRUE]

\* run_process, phase 1: the models list, the Config, the app, its
\* validate_and_setup and execute_parallel, then the pause for review or
\* the merge
FirstPhase(g, setup, fanout, merged) ==
    LET frame == GatherModels(g)
        app == g.presses
        built == [g EXCEPT !.models_list = frame.items]
        started == GuiLog(GuiLog(built, "Starting run"), "Active Models")
        validated == AppCall(started, "validate_and_setup", app, "None")
        executed == AppCall(validated, "execute_parallel", app, "None")
        reported == IF g.pre_report_var
                    THEN AppCall(executed, "generate_pre_merge_report", app, app)
                    ELSE executed
        merging == AppCall(executed, "merge", app, app)
    IN  IF frame.raised THEN GuiFinally(GuiExcept(g))
        ELSE IF frame.items = <<>>
        THEN GuiFinally(GuiLog(g, "Error: No models selected!"))
        ELSE IF Strip(g.prompt_text) = <<>>
        THEN GuiFinally(GuiLog(built, "Error: Prompt cannot be empty."))
        ELSE IF setup # "returns" THEN AppFails(validated, setup)
        ELSE IF fanout # "returns" THEN AppFails(executed, fanout)
        ELSE IF g.hitl_var
        THEN GuiFinally([GuiLog(reported, "--- PAUSED FOR HUMAN REVIEW ---") EXCEPT
                            !.cached_results = app,
                            !.cached_app = app,
                            !.is_merging_phase = TRUE,
                            !.run_btn.text = "PROCEED TO MERGE"])
        ELSE IF merged # "returns" THEN AppFails(merging, merged)
        ELSE GuiFinally(GuiLog(merging, "DONE!"))

GuiInit ==
    /\ gui = NoGui
    /\ label = NoLabel
    /\ opt = NoOpt
    /\ ingest = IngestStart(<<>>)
    /\ IdleRun

\* the user types in the prompt box or in the merge instructions box; the
\* worker reads the boxes in one step, so typing while it runs is typing
\* before it started
EditText ==
    /\ gui.thread = "none"
    /\ \E p \in GuiTexts, m \in GuiTexts :
        /\ <<p, m>> # <<gui.prompt_text, gui.merge_prompt_text>>
        /\ gui' = [gui EXCEPT !.prompt_text = p, !.merge_prompt_text = m]
    /\ UNCHANGED <<label, opt, ingest, run_vars>>

\* the user ticks or unticks "Human-in-the-Loop"
ToggleHitl ==
    /\ gui.thread = "none"
    /\ gui' = [gui EXCEPT !.hitl_var = ~@]
    /\ UNCHANGED <<label, opt, ingest, run_vars>>

\* the user ticks or unticks "Use Gemini" or "Use Codex"
ToggleModel ==
    /\ gui.thread = "none"
    /\ \/ gui' = [gui EXCEPT !.use_gemini = ~@]
       \/ gui' = [gui EXCEPT !.use_codex = ~@]
    /\ UNCHANGED <<label, opt, ingest, run_vars>>

\* start_thread: the button is pressed
start_thread ==
    /\ gui.run_btn.state = "normal"
    /\ gui.presses < MaxPresses
    /\ gui' = [gui EXCEPT
                  !.run_btn.state = "disabled",
                  !.log_text = IF gui.is_merging_phase THEN @ ELSE <<>>,
                  !.models_list = <<>>,
                  !.calls = <<>>,
                  !.presses = @ + 1,
                  !.thread = "started"]
    /\ UNCHANGED <<label, opt, ingest, run_vars>>

\* run_process: the body of the worker thread
run_process ==
    /\ gui.thread = "started"
    /\ \E setup \in AppOutcomes, fanout \in AppOutcomes, merged \in AppOutcomes :
        gui' = IF gui.is_merging_phase
               THEN MergeOnly(gui, merged)
               ELSE FirstPhase(gui, setup, fanout, merged)
    /\ UNCHANGED <<label, opt, ingest, run_vars>>

GuiNext ==
    \/ EditText
    \/ ToggleHitl
    \/ ToggleModel
    \/ start_thread
    \/ run_process

\* a started thread runs
GuiSpec == GuiInit /\ [][GuiNext]_vars /\ WF_vars(run_process)

(***************************************************************************)
(* Specification.                                                          *)
(***************************************************************************)
Next ==
    \/ ValidateAndSetup
    \/ ExpandTasks
    \/ Submit
    \/ \E t \in TaskIds : Start(t)
    \/ \E t \in TaskIds : Finish(t)
    \/ \E t \in TaskIds : Collect(t)
    \/ Return
    \/ MergeBuild
    \/ MergeInvoke

Spec == Init /\ [][Next]_vars

RerunSpec == RerunInit /\ [][Next]_vars

\* runs of one configuration over every prompt
PromptInit ==
    /\ cfg = BaseConfig(CSV_GEMINI, DEFAULT_TIMEOUT, <<>>, "high", "")
    /\ on_path \in [Providers -> BOOLEAN]
    /\ ingest = IngestStart(<<>>)
    /\ prompt_in \in { NewPrompt(src) : src \in PromptSrcs }
    /\ runs_dir = <<>>
    /\ InitRun
    /\ OtherInit

PromptSpec == PromptInit /\ [][Next]_vars

\* a step of the fan-out that the code's scheduling does not let wait for
\* ever: main and the worker threads keep running, and with a timeout > 0
\* subprocess.run returns in bounded time (with timeout 0 the process may
\* never exit)
FanOutStep ==
    \/ ExpandTasks
    \/ Submit
    \/ Return
    \/ \E t \in TaskIds :
        \/ Start(t)
        \/ (cfg.timeout > 0 /\ Finish(t))
        \/ Collect(t)

FairSpec == Spec /\ WF_vars(FanOutStep)

(***************************************************************************)
(* Properties.                                                             *)
(***************************************************************************)
\* execute_parallel has returned
FanOutReturned == submitted > 0 /\ pc \notin {"submit", "collect"}

\* the names of the tasks whose call returned, in task order
RECURSIVE ReturnedNames(_)
ReturnedNames(k) ==
    IF k = 0 THEN <<>>
    ELSE ReturnedNames(k - 1) \o
         (IF future[k].ret \in {"True", "False"} THEN <<OutTxt(tasks[k])>> ELSE <<>>)

Ascending(paths) ==
    \A a, b \in 1..Len(paths) : a < b => ~StrLess(paths[b], paths[a])

\* C1: a failed or raising task never stops a sibling: while the fan-out is
\* on, the next queued task can start and every running task can finish
\* whatever the other tasks did; execute_parallel returns only when every
\* submitted task has finished; and each task that raised was logged once
\* while execute_parallel returned normally.
C1_FailureIsolated ==
    /\ \A u \in TaskIds :
        /\ (pc \in {"submit", "collect"} /\ NextQueued(u)) => ENABLED Start(u)
        /\ (pc \in {"submit", "collect"} /\ Submitted(u)
                /\ future[u].status = "running") => ENABLED Finish(u)
    /\ FanOutReturned =>
        \A t \in TaskIds :
            /\ Finished(t)
            /\ future[t].ret = "raised" => thread_errors[t] = 1
            /\ future[t].ret # "raised" => thread_errors[t] = 0

\* C1 witness: execute_parallel has returned to main although one task
\* raised, and a sibling of that task ran to a successful end
C1_Witness ==
    /\ pc = "merge"
    /\ \E t, u \in TaskIds :
        /\ future[t].ret = "raised" /\ thread_errors[t] = 1
        /\ future[u].ret = "True"

\* C2: the list execute_parallel returns is ascending by file name and is
\* the sorted list of the returned tasks' names taken in task order, so it
\* does not depend on the order in which the futures completed.
C2_SortedDeterministic ==
    /\ (pc = "collect" /\ AllCompleted) =>
          ReturnOrder(results) = SortByName(ReturnedNames(Len(tasks)))
    /\ FanOutReturned =>
          /\ results = SortByName(ReturnedNames(Len(tasks)))
          /\ Ascending(results)

\* C2 witness: every future has been yielded, in an order that is not the
\* order of the names, and the list is about to be sorted and returned
C2_Witness ==
    /\ pc = "collect"
    /\ AllCompleted
    /\ Len(results) >= 2
    /\ ~Ascending(results)

\* C3 (as claimed): the scheduler creates and submits exactly
\* #pairs x N tasks and no two of them share a (label, iteration) key.
C3_Claim ==
    (pc \notin {"setup", "execute", "aborted"} \/ submitted > 0) =>
        /\ Len(tasks) = Len(runners_list) * cfg.iterations
        /\ (pc # "submit" => submitted = Len(tasks))
        /\ \A a, b \in TaskIds :
            a # b => <<tasks[a].label, tasks[a].i>> # <<tasks[b].label, tasks[b].i>>

\* C4 (as claimed): a call of GeminiRunner.run or CodexRunner.run never
\* raises: it returns a boolean and leaves the answer or an error string as
\* the output text.
C4_Claim ==
    /\ \A t \in TaskIds :
        Finished(t) => /\ future[t].ret \in {"True", "False"}
                       /\ future[t].wrote # NoWrite
    /\ final_out.called => pc # "crashed"

\* C5: whenever the merge prompt is being built or has been built, or the
\* merge provider is being or has been invoked, no fan-out task is queued
\* or running.
C5_MergeAfterBarrier ==
    (\/ pc \in {"merge", "invoke", "done", "crashed"}
     \/ merge_prompt # <<>>
     \/ final_out.called
     \/ \E p \in Providers : merge_calls[p] > 0)
    => \A t \in TaskIds : Submitted(t) /\ future[t].status = "done"

\* C5 witness: the merge provider has been invoked in a run of several
\* fan-out tasks
C5_Witness ==
    /\ Len(tasks) >= 2
    /\ merge_prompt # <<>>
    /\ final_out.called

\* merge has ended: it returned, died or let an exception through
MergeEnded ==
    \/ pc \in {"done", "crashed"}
    \/ pc = "aborted" /\ abort \in {"merge prompt file", "merge context"}

\* C6 (as claimed): each call of merge makes exactly one runner call, on
\* the runner of merge_provider, and none on the other runner.
C6_Claim ==
    MergeEnded =>
        \A p \in Providers :
            merge_calls[p] = (IF p = MergeRunner(cfg) THEN 1 ELSE 0)

\* C7 (as claimed): the files two distinct fan-out tasks of a run write
\* are disjoint.
C7_Claim ==
    \A a, b \in TaskIds :
        a # b => WritePaths(tasks[a]) \cap WritePaths(tasks[b]) = {}

\* C8 (as claimed): a run that a configuration error aborts has submitted
\* no fan-out task.
C8_Claim == pc = "aborted" => submitted = 0

\* C9 (as claimed): a task whose process overran the timeout has resolved
\* as a failure with the timeout marker as its output, which happens with a
\* timeout > 0 only.
C9_Claim ==
    \A t \in TaskIds :
        (Finished(t) /\ future[t].proc = "overrun") =>
            /\ cfg.timeout > 0
            /\ future[t].ret = "False"
            /\ future[t].wrote = ErrorMarker(tasks[t].provider, "timeout")

\* C9, the part that holds: with a timeout > 0 execute_parallel returns.
C9_EventuallyReturns ==
    (cfg.timeout > 0 /\ pc = "submit") ~> (pc = "merge")

\* C10 (as claimed): a task whose process exited nonzero made its invoker
\* return False with an error marker naming the exit code, and its result
\* is in the list execute_parallel returns.
C10_Claim ==
    \A t \in TaskIds :
        (Finished(t) /\ future[t].proc = "exitN") =>
            /\ future[t].ret = "False"
            /\ future[t].wrote = ExitMarker(tasks[t].provider, future[t].code)
            /\ FanOutReturned =>
                 \E k \in 1..Len(results) : results[k] = OutTxt(tasks[t])

\* C11 (as claimed): a merge invocation that failed does not abort the
\* run: merge ends normally with an empty final answer, the warning logged
\* and the reporting step reached; and the final answer is non-empty only
\* after an invocation that returned success.
C11_Claim ==
    /\ (final_out.called /\ ~final_out.success) =>
          /\ pc = "done"
          /\ final_out.final_text = NoWrite
          /\ final_out.warned
          /\ final_out.reported
    /\ final_out.final_text # NoWrite => final_out.success

\* the merge prompt artifact is complete: it opens with the instruction and
\* closes with the final-answer marker
Complete(mp) ==
    /\ mp # <<>>
    /\ mp[1].sec = "instruction"
    /\ mp[Len(mp)].sec = "final answer"

\* C12: whenever the merge provider is about to be invoked or has been
\* invoked, the merge prompt artifact is complete on disk, and the step
\* that invokes the provider leaves its content as it was, whether the
\* invocation succeeds, fails or raises.
C12_PromptPersisted ==
    /\ []((pc = "invoke" \/ final_out.called) => Complete(merge_prompt))
    /\ [][pc = "invoke" => merge_prompt' = merge_prompt]_vars

\* C12 witness: a merge invocation has failed and the complete merge prompt
\* is on disk
C12_Witness ==
    /\ final_out.called
    /\ ~final_out.success
    /\ Complete(merge_prompt)
    /\ Len(merge_prompt) >= 5

\* C13: the merge prompt is, in this order: the instruction (from the merge
\* prompt file if one is configured, else the merge prompt text if one is
\* configured, else the default), the merge context block exactly when
\* merge context files were given, the canonical prompt, one candidate
\* section per result in the order of the list handed to merge, and the
\* final-answer marker.
C13_MergePromptOrder ==
    merge_prompt # <<>> =>
        LET n == Len(results)
            c == IF merge_env.context = "none" THEN 0 ELSE 1
        IN  /\ Len(merge_prompt) = n + c + 3
            /\ merge_prompt[1].sec = "instruction"
            /\ merge_prompt[1].body =
                 (IF merge_env.prompt_file # "none" THEN "file"
                  ELSE IF merge_env.prompt_text THEN "text"
                  ELSE "default")
            /\ (c = 1 => merge_prompt[2].sec = "merge context")
            /\ merge_prompt[2 + c].sec = "original"
            /\ merge_prompt[2 + c].body = "canon"
            /\ \A k \in 1..n :
                /\ merge_prompt[2 + c + k].sec = "candidate"
                /\ merge_prompt[2 + c + k].name = results[k]
            /\ merge_prompt[n + c + 3].sec = "final answer"

\* C13 witness: a merge prompt built from a configured merge prompt text,
\* merge context files and two results
C13_Witness ==
    /\ merge_prompt # <<>>
    /\ merge_env.prompt_file = "none"
    /\ merge_env.prompt_text
    /\ merge_env.context = "ok"
    /\ Len(results) = 2

\* the candidate sections of the merge prompt that name the artifact `name`
CandidatesOf(name) ==
    { j \in 1..Len(merge_prompt) :
        merge_prompt[j].sec = "candidate" /\ merge_prompt[j].name = name }

\* C14 (as claimed): every task whose result was handed to merge, failed
\* or not, has exactly one candidate section under its artifact's name, and
\* the content of that section is the text the task left as its output.
C14_Claim ==
    merge_prompt # <<>> =>
        \A t \in TaskIds :
            future[t].ret \in {"True", "False"} =>
                /\ Cardinality(CandidatesOf(OutTxt(tasks[t]))) = 1
                /\ \A j \in CandidatesOf(OutTxt(tasks[t])) :
                     merge_prompt[j].body = future[t].wrote

\* C14, the part that holds: the same, for runs whose tasks have pairwise
\* distinct artifact names.
C14_DistinctNames ==
    (\A a, b \in TaskIds : a # b => OutTxt(tasks[a]) # OutTxt(tasks[b]))
    => C14_Claim

InvokedProviders(c) ==
    { ParseModels(c).runners[k].provider : k \in 1..Len(ParseModels(c).runners) }
    \cup {c.merge_provider}

\* C16 (as claimed): when a provider the run invokes is not on PATH,
\* validate_and_setup aborts the run and no fan-out task is submitted.
C16_Claim ==
    (pc # "setup" /\ \E p \in InvokedProviders(cfg) : ~on_path[p])
    => (pc = "aborted" /\ submitted = 0)

\* C17 (as claimed), for a run into the outdir of an earlier run of the
\* same configuration: once execute_parallel has returned, no artifact
\* holds content of the earlier run and there is no artifact the tasks of
\* the run do not own.
C17_Claim ==
    FanOutReturned =>
        /\ \A n \in DOMAIN runs_dir : runs_dir[n] # Stale
        /\ DOMAIN runs_dir \subseteq UNION { WritePaths(tasks[t]) : t \in TaskIds }

\* C18: run is called at most once for a task, exactly once for every task
\* by the time execute_parallel returns, whatever the outcome of the call;
\* and merge calls a runner at most once, exactly once when it invokes.
C18_SingleAttempt ==
    /\ \A t \in TaskIds :
        /\ future[t].calls <= 1
        /\ future[t].status # "queued" => future[t].calls = 1
    /\ FanOutReturned => \A t \in TaskIds : future[t].calls = 1
    /\ merge_calls["gemini"] + merge_calls["codex"] <= 1
    /\ final_out.called => merge_calls["gemini"] + merge_calls["codex"] = 1

\* C18 witness: the run has ended after a fan-out task failed and the merge
\* invocation failed, each attempted once
C18_Witness ==
    /\ pc = "done"
    /\ ~final_out.success
    /\ \E t \in TaskIds : future[t].ret = "False" /\ future[t].calls = 1

\* C19: prompt.txt is written at most once; once a task has been
\* submitted it has been written exactly once and holds the canonical
\* prompt, through the fan-out and the merge; and every task whose process
\* was started was given that content.
C19_SharedCanonicalPrompt ==
    /\ prompt_canon.writes <= 1
    /\ submitted > 0 => prompt_canon = [writes |-> 1, text |-> "canon"]
    /\ \A t \in TaskIds :
        /\ future[t].prompt \in {"unread", "canon"}
        /\ future[t].proc # "none" => future[t].prompt = "canon"

\* C19 witness: the run has ended and its two tasks were both given the
\* canonical prompt
C19_Witness ==
    /\ pc = "done"
    /\ Len(tasks) = 2
    /\ \A t \in TaskIds : future[t].prompt = "canon"

\* C20 (as claimed): for every plain-text context file that exists and
\* that the loop has dealt with: when its bytes decode as UTF-8 the decoded
\* text is used without a warning; when they do not, a NUL byte aborts the
\* run, and without one the latin-1 decoding is used and a warning logged.
C20_Claim ==
    \A k \in 1..Len(ingest.files) :
        LET f == ingest.files[k]
        IN  (/\ f.exists
             /\ CtxKind(f) = "plain"
             /\ (k < ingest.pos \/ (k = ingest.pos /\ ingest.die # "")))
            => IF Utf8Decode(f.bytes).ok
               THEN /\ k < ingest.pos
                    /\ ingest.block[k] = Unit(f.name, Utf8Decode(f.bytes).text, FALSE)
               ELSE IF HasNul(f.bytes)
               THEN k = ingest.pos /\ ingest.die = "binary"
               ELSE /\ k < ingest.pos
                    /\ ingest.block[k] = Unit(f.name, Latin1Decode(f.bytes), TRUE)

\* C21: a run whose prompt file is missing, is empty, or is not UTF-8 and
\* holds a NUL byte is aborted by validate_and_setup with no runner parsed
\* and no task created or submitted; a prompt file that is not UTF-8 and
\* holds no NUL byte is read as latin-1 with a warning logged, and the
\* prompt does not abort the run.
C21_PromptFile ==
    (pc # "setup" /\ prompt_in.src.kind = "file") =>
        LET b == prompt_in.src.bytes
        IN  IF \/ ~prompt_in.src.exists
               \/ Len(b) = 0
               \/ (~Utf8Decode(b).ok /\ HasNul(b))
            THEN /\ pc = "aborted"
                 /\ prompt_in.read => (prompt_in.die # "" /\ abort = "prompt")
                 /\ runners_list = <<>>
                 /\ tasks = <<>>
                 /\ submitted = 0
            ELSE /\ abort # "prompt"
                 /\ (prompt_in.read /\ ~Utf8Decode(b).ok) =>
                       /\ prompt_in.die = ""
                       /\ prompt_in.content = Latin1Decode(b)
                       /\ prompt_in.warned
                       /\ prompt_canon.writes = 1

\* C21 witness: a prompt file that is not UTF-8 and holds no NUL byte was
\* accepted with the warning, and the run went on to its end
C21_Witness ==
    /\ pc = "done"
    /\ prompt_in.src.kind = "file"
    /\ ~Utf8Decode(prompt_in.src.bytes).ok
    /\ prompt_in.warned
    /\ submitted = 1

\* C22 (as claimed): a call of GeminiRunner.run returned True only if its
\* process exited zero and its envelope parsed, and then the output holds
\* the response text; and a call whose process exited zero and left a
\* malformed envelope returned False with the decoding error marker, which
\* is not a nonzero-exit marker, as its output.
C22_Claim ==
    \A t \in TaskIds :
        (Finished(t) /\ tasks[t].provider = "gemini") =>
            /\ future[t].ret = "True" =>
                  /\ future[t].proc = "exit0"
                  /\ future[t].envelope = "valid"
                  /\ future[t].wrote = Answer("gemini")
            /\ (future[t].proc = "exit0" /\ future[t].envelope = "malformed") =>
                  /\ future[t].ret = "False"
                  /\ future[t].wrote = ErrorMarker("gemini", "decode")
                  /\ \A c \in ExitCodes : future[t].wrote # ExitMarker("gemini", c)

\* C22, the part that holds: success only after a zero exit and a parsed
\* envelope, with the response text as output; and a malformed envelope
\* never yields success.
C22_SuccessOnly ==
    \A t \in TaskIds :
        (Finished(t) /\ tasks[t].provider = "gemini") =>
            /\ future[t].ret = "True" =>
                  /\ future[t].proc = "exit0"
                  /\ future[t].envelope = "valid"
                  /\ future[t].wrote = Answer("gemini")
            /\ (future[t].envelope = "malformed" /\ future[t].ret = "False") =>
                  future[t].wrote = ErrorMarker("gemini", "decode")

\* the placeholder an extraction that fails puts in the place of the text
Placeholder(f) ==
    IF f.extract = "notool" THEN PDF_NOTOOL \o f.name \o BRACKET
    ELSE IF CtxKind(f) = "pdf" THEN PDF_ERROR \o f.name \o BRACKET
    ELSE DOCX_ERROR \o f.name \o BRACKET

ExtractedText(f) ==
    IF CtxKind(f) = "pdf" THEN extract_text_from_pdf(f)
    ELSE IF CtxKind(f) = "docx" THEN extract_text_from_docx(f)
    ELSE IF Utf8Decode(f.bytes).ok THEN Utf8Decode(f.bytes).text
    ELSE Latin1Decode(f.bytes)

\* the units of the first k files, each the banner with the file's name, the
\* opening delimiter, the file's text and the closing delimiter, in input
\* order
RECURSIVE ExpectedBlock(_, _)
ExpectedBlock(files, k) ==
    IF k = 0 THEN <<>>
    ELSE ExpectedBlock(files, k - 1)
         \o BANNER_OPEN \o files[k].name \o BANNER_CLOSE
         \o ExtractedText(files[k]) \o UNIT_CLOSE

\* C24: when process_context_files returns, its result is the
\* concatenation, in input order, of one unit per file, each unit being the
\* banner naming the file followed by the file's extracted text between the
\* delimiters; for the empty list the result is the empty string.
C24_ContextBlock ==
    ingest.returned =>
        /\ Len(ingest.block) = Len(ingest.files)
        /\ ingest.result = ExpectedBlock(ingest.files, Len(ingest.files))
        /\ ingest.files = <<>> => ingest.result = <<>>

\* C24 witness: the call has returned for two files of different names
C24_Witness ==
    /\ ingest.returned
    /\ Len(ingest.files) = 2
    /\ ingest.files[1].name # ingest.files[2].name
    /\ ingest.result # <<>>

\* the characters of [A-Za-z0-9._-]
LabelAlphabet == (48..57) \cup (65..90) \cup (97..122) \cup {45, 46, 95}

\* t matches [A-Za-z0-9._-]+
MatchesLabelPlus(t) == Len(t) >= 1 /\ \A k \in 1..Len(t) : t[k] \in LabelAlphabet

\* t matches [A-Za-z0-9._-]*
MatchesLabelStar(t) == \A k \in 1..Len(t) : t[k] \in LabelAlphabet

\* C25 (as claimed): sanitize_label maps every string to a string matching
\* [A-Za-z0-9._-]+, returns a string of those characters only unchanged,
\* and applying it twice equals applying it once.
C25_Claim ==
    /\ label.applied >= 1 =>
          /\ MatchesLabelPlus(label.once)
          /\ MatchesLabelStar(label.text) => label.once = label.text
    /\ label.applied = 2 => label.twice = label.once

\* C25 (amended): sanitize_label maps every string to a string of the same
\* length over [A-Za-z0-9._-], which matches [A-Za-z0-9._-]+ when the
\* argument is not empty; it returns a string of those characters only
\* unchanged; and applying it twice equals applying it once.
C25_SanitizeLabel ==
    /\ label.applied >= 1 =>
          /\ Len(label.once) = Len(label.text)
          /\ MatchesLabelStar(label.once)
          /\ label.text # <<>> => MatchesLabelPlus(label.once)
          /\ MatchesLabelStar(label.text) => label.once = label.text
    /\ label.applied = 2 => label.twice = label.once

\* C25 witness: sanitize_label has replaced a character of its argument
\* and kept a "." of it, and was applied to its own result
C25_Witness ==
    /\ label.applied = 2
    /\ label.once # label.text
    /\ \E k \in 1..Len(label.text) : label.text[k] = DOT /\ label.once[k] = DOT
    /\ label.twice = label.once

\* the tasks whose future as_completed has yielded and whose call returned
CollectedReturned ==
    { t \in TaskIds : future[t].collected /\ future[t].ret \in {"True", "False"} }

\* how often the path `name` occurs in the list `paths`
Occurrences(paths, name) == Cardinality({ k \in 1..Len(paths) : paths[k] = name })

\* C26: the result list holds one entry per task whose call returned True
\* or False and none for a task whose call raised: while the futures are
\* gathered and after execute_parallel has returned, every path occurs in
\* the list as often as there are gathered tasks with that path whose call
\* returned; and an exception is logged exactly once, for the task that
\* raised it, which leaves nothing in its output artifact, and
\* execute_parallel still returns to main.
C26_ResultsAndLog ==
    /\ Len(results) = Cardinality(CollectedReturned)
    /\ \A t \in TaskIds :
          /\ Occurrences(results, OutTxt(tasks[t])) =
                Cardinality({ u \in CollectedReturned : OutTxt(tasks[u]) = OutTxt(tasks[t]) })
          /\ thread_errors[t] =
                (IF future[t].collected /\ future[t].ret = "raised" THEN 1 ELSE 0)
          /\ future[t].ret = "raised" => future[t].wrote = NoWrite
    /\ FanOutReturned =>
          /\ \A t \in TaskIds : future[t].collected
          /\ abort \notin {"outdir", "context", "prompt", "unknown provider",
                            "no valid runners", "gemini not found", "codex not found"}

\* C26 witness: execute_parallel has returned a list of one entry for two
\* tasks, of which one raised and was logged once
C26_Witness ==
    /\ FanOutReturned
    /\ Len(tasks) = 2
    /\ Len(results) = 1
    /\ \E t \in TaskIds : future[t].ret = "raised" /\ thread_errors[t] = 1

\* a task that wrote the path at place k of the returned list
TaskAt(k) == CHOOSE t \in TaskIds : OutTxt(tasks[t]) = results[k]

\* the results of one label are contiguous and in increasing iteration order
LabelRuns ==
    /\ \A a, b, c \in 1..Len(results) :
          (a < b /\ b < c /\ tasks[TaskAt(a)].label = tasks[TaskAt(c)].label)
          => tasks[TaskAt(b)].label = tasks[TaskAt(a)].label
    /\ \A a, b \in 1..Len(results) :
          (a < b /\ tasks[TaskAt(a)].label = tasks[TaskAt(b)].label)
          => tasks[TaskAt(a)].i < tasks[TaskAt(b)].i

\* a is a proper prefix of b
ProperPrefix(a, b) == Len(a) < Len(b) /\ SubSeq(b, 1, Len(a)) = a

\* no label of the run is a proper prefix of another
PrefixFree ==
    \A a, b \in 1..Len(runners_list) :
        ~ProperPrefix(runners_list[a].label, runners_list[b].label)

Derived == { w \in CallIds : opt.calls[w].stage # "started" }

\* C28 (as claimed): no two execute_llm calls, in flight or earlier, use a
\* common prompt, output or log path, and every call gave its process its
\* own prompt and showed its own output.
C28_Claim ==
    /\ \A a, b \in Derived :
          a # b => CallPaths(opt.calls[a]) \cap CallPaths(opt.calls[b]) = {}
    /\ \A w \in CallIds :
          /\ opt.calls[w].stage \in {"ran", "done"} => opt.calls[w].stdin = w
          /\ opt.calls[w].stage = "done" => opt.calls[w].shown = w

\* C28, the part that holds: calls for different providers use disjoint
\* paths.
C28_AcrossProviders ==
    \A a, b \in Derived :
        opt.calls[a].provider # opt.calls[b].provider
        => CallPaths(opt.calls[a]) \cap CallPaths(opt.calls[b]) = {}


(***************************************************************************)
(* The ensemble GUI: the Human-in-the-Loop state and the first phase.      *)
(***************************************************************************)
\* the providers ticked in the configuration tab
EnabledProviders(g) ==
    { p \in Providers : IF p = "gemini" THEN g.use_gemini ELSE g.use_codex }

\* the worker thread has been started for a first phase, with a prompt and
\* a provider
FirstPhaseRun ==
    /\ gui.thread = "started"
    /\ ~gui.is_merging_phase
    /\ Strip(gui.prompt_text) # <<>>
    /\ EnabledProviders(gui) # {}

\* the models list of the run names every ticked provider
ModelsListComplete ==
    \A p \in EnabledProviders(gui) :
        \E i \in 1..Len(gui.models_list) : gui.models_list[i] = p

\* the run called validate_and_setup and next execute_parallel
SetupThenFanOut ==
    \E i \in 1..Len(gui.calls) :
        /\ i < Len(gui.calls)
        /\ gui.calls[i][1] = "validate_and_setup"
        /\ gui.calls[i + 1][1] = "execute_parallel"

\* every run of the worker thread so far ended in the except clause: no
\* call of an EnsembleApp was made, nothing was cached, and the GUI never
\* entered the merging phase
NameErrorEveryRun ==
    /\ gui.calls = <<>>
    /\ gui.models_list = <<>>
    /\ ~gui.is_merging_phase
    /\ gui.cached_app = "None" /\ gui.cached_results = "None"
    /\ (gui.presses > 0 /\ gui.thread = "none"
            => gui.log_text = <<"CRITICAL ERROR">>)

(* C29: whenever is_merging_phase is true, cached_app and cached_results   *)
(* hold the app and the results of the fan-out of the press before;        *)
(* merge is called, in the merging phase, on that cached pair only; and    *)
(* when the GUI is not merging after a merge that returned, both caches    *)
(* are cleared.  Under GuiSpec no state has is_merging_phase true and no   *)
(* state has a call of merge (NameErrorEveryRun), so this holds without    *)
(* its case ever happening.                                                *)
C29_HitlState ==
    /\ gui.is_merging_phase =>
          /\ gui.cached_app # "None"
          /\ gui.cached_results = gui.cached_app
          /\ gui.cached_app < gui.presses \/ gui.thread = "none"
    /\ \A i \in 1..Len(gui.calls) :
          gui.calls[i][1] = "merge" /\ gui.hitl_var =>
              gui.calls[i][2] # gui.presses
    /\ (\E i \in 1..Len(gui.calls) : gui.calls[i][1] = "merge")
          /\ gui.thread = "none" /\ gui.log_text # <<>>
          /\ gui.log_text[Len(gui.log_text)] = "DONE!" =>
              /\ ~gui.is_merging_phase
              /\ gui.cached_app = "None" /\ gui.cached_results = "None"

(* C30: a first-phase run of the worker thread with a non-empty prompt and *)
(* at least one provider ticked builds a models list that names every      *)
(* ticked provider and calls validate_and_setup and then execute_parallel. *)
C30_Claim == FirstPhaseRun ~> (ModelsListComplete /\ SetupThenFanOut)

====
